---- MODULE Spec2Model ----
(***************************************************************************)
(* The MCP gateway's connection manager, tool-schema cache, request        *)
(* sanitizer and tool executor (src/src/services/mcpProxyService.ts) as a  *)
(* state machine.  Node.js runs one callback at a time, so every action    *)
(* below is one synchronous run of code between two suspension points      *)
(* (an `await` on remote I/O, or a timer).  An `await` on a promise that   *)
(* is already settled (an async function that returned without doing I/O) *)
(* continues in the same action.                                           *)
(*                                                                         *)
(* The MCP SDK's Client and transport are the environment: an open, a      *)
(* tools/list, a tool call or a close may succeed or raise.  A request     *)
(* succeeds only on a session that is open when the answer arrives; a      *)
(* close takes effect when it returns, and a close that raised leaves the  *)
(* session as it was.  Retry timers fire in any order.                     *)
(***************************************************************************)
EXTENDS Integers, Sequences, FiniteSets, TLC

(***************************************************************************)
(* Bounds of the model.                                                    *)
(***************************************************************************)
MaxTimers == 2      \* retry timers pending at the same time
MaxTicks == 1       \* clock advances
MaxIntervals == 2   \* setInterval timers alive at the same time

(***************************************************************************)
(* Program constants.                                                      *)
(***************************************************************************)
maxReconnectAttempts == 5
toolSyncIntervalMs == 300000
RetryBaseDelayMs == 2000

\* In-flight calls of the service's methods.  Any of them can be a connect()
\* (explicit or fired by a retry timer) or a disconnect(); requests
\* (executeService, listTools) run in the first.
MaxWhistles == 2    \* items of a whistles list
Procs == {"p1", "p2"}
Requesters == {"p1"}
\* Client/transport objects alive at the same time.
Handles == {1, 2}
NoHandle == 0

\* Date.now(): the clock starts well past the epoch, so that the first
\* refresh (lastToolSync = 0) is always due, and advances by whole intervals.
TickMs == toolSyncIntervalMs
StartupTime == 2 * toolSyncIntervalMs
Times == {StartupTime + i * TickMs : i \in 0..MaxTicks}

(***************************************************************************)
(* Tool definitions (MCPToolDef).  inputSchema is optional and so is its   *)
(* properties field; properties is the sequence of declared property names *)
(* in declaration order (Object.keys order).                               *)
(***************************************************************************)
AccessTokenKey == "access_token"
Keys == {AccessTokenKey, "active_only", "keyword"}
Values == {"v1", "v2"}
ToolNames == {"list_whistles", "search_businesses", "get_user_profile"}

NoSchema == [present |-> FALSE, hasProps |-> FALSE, props |-> <<>>]
OpenSchema == [present |-> TRUE, hasProps |-> FALSE, props |-> <<>>]
PropsSchema(ps) == [present |-> TRUE, hasProps |-> TRUE, props |-> ps]
ToolDef(n, s) == [name |-> n, inputSchema |-> s]

\* Listings the remote endpoint may answer a tools/list request with.
CatalogueA ==
    << ToolDef("list_whistles", PropsSchema(<<AccessTokenKey, "active_only">>)),
       ToolDef("search_businesses", PropsSchema(<<"keyword">>)) >>
CatalogueB ==
    << ToolDef("search_businesses", PropsSchema(<<"keyword", "active_only">>)),
       ToolDef("list_whistles", OpenSchema) >>
ServerListings == {<<>>, CatalogueA, CatalogueB}

\* Calls of executeService(serviceName, params) that requests make.  params
\* is typed `any`: NullParams stands for a params that is null.
ArgsOf(S) == [S -> Values]
NoArgs == [k \in {} |-> "v1"]
NullParams == [k \in {"<null>"} |-> "null"]
ExecRequests ==
    { [tool |-> "list_whistles",
       args |-> [k \in Keys |-> IF k = "keyword" THEN "v2" ELSE "v1"]],
      [tool |-> "list_whistles", args |-> NullParams] }

Range(s) == {s[i] : i \in DOMAIN s}

(***************************************************************************)
(* State.                                                                  *)
(***************************************************************************)
VARIABLES
    client,             \* this.client: a handle, or NoHandle for null
    transport,          \* this.transport
    isConnected,
    reconnectAttempts,
    toolCache,          \* MCPToolDef[]
    lastToolSync,
    sess,               \* state of every Client/transport object
    timers,             \* number of pending setTimeout retries (line 85)
    now,                \* Date.now()
    calls,              \* the in-flight calls of the service's async methods
    authHeaders,        \* this.authHeaders
    hdrs,               \* the headers every transport object was built with
    server,             \* the listings the remote endpoint may answer with
    lastFetch,          \* how the tools/list of refreshTools ended in the
                        \* step that led here: ok | failed, none in any
                        \* other step
    cachedTools,        \* ToolRegistryService.cachedTools
    syncInterval,       \* ToolRegistryService.syncInterval is not null
    intervals,          \* number of setInterval timers that are not cleared
    stopped,            \* stopSync() returned and startSync() was not
                        \* called since
    availableTools,     \* OpenAIService.availableTools
    turns               \* the requests AIController.processMessage is serving

regVars == <<cachedTools, syncInterval, intervals, stopped, availableTools,
             turns>>
vars == <<client, transport, isConnected, reconnectAttempts, toolCache,
          lastToolSync, sess, timers, now, calls, authHeaders, hdrs, server,
          lastFetch, regVars>>

(***************************************************************************)
(* Texts and JSON.  A text (a model reply, a user message, the text of a   *)
(* content item, a location string) is a sequence of tokens, each a piece  *)
(* of the text with its lexical kind: p (one of the JSON punctuation       *)
(* characters), str (a JSON string literal, s is its content), num (a      *)
(* numeral), lit (null, true, false), w (any other run of characters), ws  *)
(* (a blank or a line break) and fence (three backquotes).  A JavaScript   *)
(* value is a record of its type and content; the members of an object or  *)
(* the items of an array are kept in order in f.                           *)
(***************************************************************************)
Tok(kind, str) == [k |-> kind, s |-> str]
Punct(str) == Tok("p", str)
Str(str) == Tok("str", str)
Num(str) == Tok("num", str)
Lit(str) == Tok("lit", str)
Word(str) == Tok("w", str)
SP == Tok("ws", " ")
NL == Tok("ws", "\n")
FENCE == Tok("fence", "bq3")

JSUndefined == [ty |-> "undefined", b |-> FALSE, n |-> 0, s |-> "", f |-> <<>>]
JSNull == [ty |-> "null", b |-> FALSE, n |-> 0, s |-> "", f |-> <<>>]
JSBool(bool) == [ty |-> "boolean", b |-> bool, n |-> 0, s |-> "", f |-> <<>>]
JSNumber(num) == [ty |-> "number", b |-> FALSE, n |-> num, s |-> "", f |-> <<>>]
JSNaN == [ty |-> "number", b |-> FALSE, n |-> 0, s |-> "NaN", f |-> <<>>]
JSString(str) == [ty |-> "string", b |-> FALSE, n |-> 0, s |-> str, f |-> <<>>]
JSObject(members) == [ty |-> "object", b |-> FALSE, n |-> 0, s |-> "", f |-> members]
JSArray(items) == [ty |-> "array", b |-> FALSE, n |-> 0, s |-> "", f |-> items]
Member(name, v) == [key |-> name, val |-> v]

\* the numerals of the texts and their values
NumeralValue(str) ==
    CASE str = "0" -> 0 [] str = "1" -> 1 [] str = "2" -> 2 [] str = "7" -> 7
      [] str = "10" -> 10 [] str = "76" -> 76

\* typeof v
TypeOf(v) == IF v.ty \in {"array", "null"} THEN "object" ELSE v.ty
IsNaN(v) == v.ty # "number" \/ v.s = "NaN"
\* the truthiness JavaScript's && , || and if apply to a value
Truthy(v) ==
    CASE v.ty \in {"undefined", "null"} -> FALSE
      [] v.ty = "boolean" -> v.b
      [] v.ty = "number" -> v.n # 0 /\ v.s # "NaN"
      [] v.ty = "string" -> v.s # ""
      [] OTHER -> TRUE
\* v[name]: the property of an object or array, undefined where there is none
Get(v, name) ==
    IF \E i \in DOMAIN v.f : v.f[i].key = name
    THEN v.f[CHOOSE i \in DOMAIN v.f : v.f[i].key = name].val
    ELSE JSUndefined
\* Object.keys
MemberKeys(members) == {members[i].key : i \in DOMAIN members}
\* the members after obj[name] = v: an existing key keeps its place
Put(members, name, v) ==
    IF \E i \in DOMAIN members : members[i].key = name
    THEN [i \in DOMAIN members |->
            IF members[i].key = name THEN Member(name, v) ELSE members[i]]
    ELSE Append(members, Member(name, v))

\* JSON.parse, by recursive descent over the tokens; white space between
\* tokens is skipped, anything left over after the value is a syntax error
RECURSIVE SkipWs(_, _)
SkipWs(text, i) ==
    IF i <= Len(text) /\ text[i].k = "ws" THEN SkipWs(text, i + 1) ELSE i
ParseError == [ok |-> FALSE, val |-> JSUndefined, next |-> 0]
Parsed(v, i) == [ok |-> TRUE, val |-> v, next |-> i]
RECURSIVE ParseValue(_, _), ParseMembers(_, _, _, _), ParseItems(_, _, _, _)
ParseValue(text, i) ==
    LET j == SkipWs(text, i) IN
    IF j > Len(text) THEN ParseError
    ELSE CASE text[j].k = "str" -> Parsed(JSString(text[j].s), j + 1)
           [] text[j].k = "num" -> Parsed(JSNumber(NumeralValue(text[j].s)), j + 1)
           [] text[j] = Lit("null") -> Parsed(JSNull, j + 1)
           [] text[j] = Lit("true") -> Parsed(JSBool(TRUE), j + 1)
           [] text[j] = Lit("false") -> Parsed(JSBool(FALSE), j + 1)
           [] text[j] = Punct("{") -> ParseMembers(text, j + 1, <<>>, TRUE)
           [] text[j] = Punct("[") -> ParseItems(text, j + 1, <<>>, TRUE)
           [] OTHER -> ParseError
ParseMembers(text, i, acc, first) ==
    LET j == SkipWs(text, i)
        c == SkipWs(text, j + 1)
    IN  IF j > Len(text) THEN ParseError
        ELSE IF first /\ text[j] = Punct("}") THEN Parsed(JSObject(acc), j + 1)
        ELSE IF text[j].k # "str" \/ c > Len(text) THEN ParseError
        ELSE IF text[c] # Punct(":") THEN ParseError
        ELSE LET r == ParseValue(text, c + 1)
                 e == SkipWs(text, r.next)
                 members == Put(acc, text[j].s, r.val)
             IN  IF ~r.ok \/ e > Len(text) THEN ParseError
                 ELSE IF text[e] = Punct(",") THEN ParseMembers(text, e + 1, members, FALSE)
                 ELSE IF text[e] = Punct("}") THEN Parsed(JSObject(members), e + 1)
                 ELSE ParseError
ParseItems(text, i, acc, first) ==
    LET j == SkipWs(text, i) IN
    IF j > Len(text) THEN ParseError
    ELSE IF first /\ text[j] = Punct("]") THEN Parsed(JSArray(acc), j + 1)
    ELSE LET r == ParseValue(text, j)
             e == SkipWs(text, r.next)
             items == Append(acc, Member(ToString(Len(acc)), r.val))
         IN  IF ~r.ok \/ e > Len(text) THEN ParseError
             ELSE IF text[e] = Punct(",") THEN ParseItems(text, e + 1, items, FALSE)
             ELSE IF text[e] = Punct("]") THEN Parsed(JSArray(items), e + 1)
             ELSE ParseError
\* [ok, val]: ok is FALSE where JSON.parse throws a SyntaxError
JSONParse(text) ==
    LET r == ParseValue(text, 1) IN
    IF r.ok /\ SkipWs(text, r.next) > Len(text)
    THEN [ok |-> TRUE, val |-> r.val]
    ELSE [ok |-> FALSE, val |-> JSUndefined]

\* String.prototype.trim
RECURSIVE TrimStart(_), TrimEnd(_)
TrimStart(text) ==
    IF text # <<>> /\ Head(text).k = "ws" THEN TrimStart(Tail(text)) ELSE text
TrimEnd(text) ==
    IF text # <<>> /\ text[Len(text)].k = "ws"
    THEN TrimEnd(SubSeq(text, 1, Len(text) - 1)) ELSE text
Trim(text) == TrimEnd(TrimStart(text))

(***************************************************************************)
(* OpenAIService.parseAIResponse (openaiService.ts lines 114-165).         *)
(***************************************************************************)
\* String.prototype.toLowerCase on the pieces of the texts
LowerCase(str) ==
    CASE str = "PRICE" -> "price"
      [] str = "Booking" -> "booking"
      [] str = "LOCATION" -> "location"
      [] str = "Sure" -> "sure"
      [] str = "Name" -> "name"
      [] OTHER -> str
\* the keywords a lower-case piece includes as a substring
KeywordsIn(str) ==
    CASE str \in {"book", "booking", "rebook"} -> {"book"}
      [] str \in {"price", "prices"} -> {"price"}
      [] str \in {"location", "locations"} -> {"location"}
      [] str \in {"name", "username"} -> {"name"}
      [] str = "phone" -> {"phone"}
      [] str = "number" -> {"number"}
      [] str = "status" -> {"status"}
      [] str = "verified" -> {"verified"}
      [] OTHER -> {}
\* text.toLowerCase().includes(keyword)
Includes(text, keyword) ==
    \E i \in DOMAIN text : keyword \in KeywordsIn(LowerCase(text[i].s))

\* pieces that hold a character outside a-z, A-Z
NonAlphabetic == {"whistles:", "I'm", ""}
Alphabetic(str) == str \notin NonAlphabetic

\* responseText.match(/```[a-zA-Z]*\n([\s\S]*?)```/) (line 122): the
\* leftmost opening fence that is followed by letters or nothing, then a
\* line break, and has a fence after it; group 1 runs up to the first such
\* fence.
BodyStart(text, i) ==
    IF text[i] # FENCE THEN 0
    ELSE IF i + 1 <= Len(text) /\ text[i + 1] = NL THEN i + 2
    ELSE IF /\ i + 2 <= Len(text)
            /\ text[i + 1].k = "w" /\ Alphabetic(text[i + 1].s)
            /\ text[i + 2] = NL
         THEN i + 3
    ELSE 0
Closes(text, i) ==
    {j \in DOMAIN text : BodyStart(text, i) > 0 /\ j >= BodyStart(text, i)
                         /\ text[j] = FENCE}
Min(set) == CHOOSE m \in set : \A o \in set : m <= o
NoMatch == [matched |-> FALSE, group |-> <<>>]
Fenced(text) ==
    LET opens == {i \in DOMAIN text : Closes(text, i) # {}} IN
    IF opens = {} THEN NoMatch
    ELSE LET i == Min(opens) IN
         [matched |-> TRUE,
          group |-> SubSeq(text, BodyStart(text, i), Min(Closes(text, i)) - 1)]

\* lines 121-128: the candidates, the fenced block first
JsonCandidates(responseText) ==
    LET fenced == Fenced(responseText)
        trimmed == Trim(responseText)
    IN  (IF fenced.matched /\ fenced.group # <<>>
         THEN <<Trim(fenced.group)>> ELSE <<>>)
        \o (IF /\ trimmed # <<>>
               /\ Head(trimmed) = Punct("{") /\ trimmed[Len(trimmed)] = Punct("}")
            THEN <<trimmed>> ELSE <<>>)

\* lines 131-133: the candidate parses and passes the test of line 133
IsToolCallUnparsed(candidate) ==
    LET parsed == JSONParse(candidate) IN
    \/ ~parsed.ok
    \/ /\ Truthy(parsed.val) /\ TypeOf(parsed.val) = "object"
       /\ Truthy(Get(parsed.val, "tool")) /\ Truthy(Get(parsed.val, "args"))
IsToolCall(candidate) ==
    LET parsed == JSONParse(candidate) IN
    /\ parsed.ok
    /\ Truthy(parsed.val) /\ TypeOf(parsed.val) = "object"
    /\ Truthy(Get(parsed.val, "tool")) /\ Truthy(Get(parsed.val, "args"))

\* an AIResponse; a field that is undefined (no actions, no suggestions) is
\* the empty sequence.  An action's data is a JavaScript value, except the
\* user message booking_intent carries in data.message, which is a text.
Action(type, data, message) == [type |-> type, data |-> data, message |-> message]
AIResponse(text, actions, suggestions) ==
    [text |-> text, actions |-> actions, suggestions |-> suggestions]
PricingSuggestions == <<"Get quotes", "Compare providers">>
BookingSuggestions == <<"Choose service type", "Set pickup location">>
DefaultSuggestions == <<"Book a ride", "Find services", "See offers">>

\* lines 130-141: the first candidate that passes, 0 if none does
FoundCandidate(responseText) ==
    LET jsonCandidates == JsonCandidates(responseText)
        passing == {i \in DOMAIN jsonCandidates : IsToolCall(jsonCandidates[i])}
    IN  IF passing = {} THEN 0 ELSE Min(passing)

\* lines 143-158
KeywordActions(responseText, originalMessage) ==
    (IF Includes(responseText, "book") \/ Includes(originalMessage, "book")
     THEN <<Action("booking_intent", JSUndefined, originalMessage)>> ELSE <<>>)
    \o (IF Includes(responseText, "location") \/ Includes(originalMessage, "location")
        THEN <<Action("location_request", JSObject(<<>>), <<>>)>> ELSE <<>>)
SuggestionsFromReply(responseText, originalMessage) ==
    IF Includes(responseText, "price") THEN PricingSuggestions
    ELSE IF Includes(responseText, "book") THEN BookingSuggestions
    ELSE DefaultSuggestions
Suggestions(responseText, originalMessage) ==
    IF Includes(originalMessage, "price") THEN PricingSuggestions
    ELSE IF Includes(originalMessage, "book") THEN BookingSuggestions
    ELSE DefaultSuggestions

parseAIResponseKeepsText(responseText, originalMessage) ==
    LET found == FoundCandidate(responseText) IN
    IF found > 0
    THEN AIResponse(responseText,
                    KeywordActions(responseText, originalMessage)
                    \o <<Action("mcp_tool",
                                JSONParse(JsonCandidates(responseText)[found]).val,
                                <<>>)>>,
                    Suggestions(responseText, originalMessage))
    ELSE AIResponse(responseText,
                    KeywordActions(responseText, originalMessage),
                    Suggestions(responseText, originalMessage))
parseAIResponse(responseText, originalMessage) ==
    LET found == FoundCandidate(responseText) IN
    IF found > 0
    THEN AIResponse(<<>>,
                    <<Action("mcp_tool",
                             JSONParse(JsonCandidates(responseText)[found]).val,
                             <<>>)>>,
                    <<>>)
    ELSE AIResponse(responseText,
                    KeywordActions(responseText, originalMessage),
                    Suggestions(responseText, originalMessage))

(***************************************************************************)
(* AIController.processMessage (src/unnamed/part_001 lines 17-201).        *)
(***************************************************************************)
\* a string that holds a text keeps the text's tokens in f
JSText(text) ==
    IF text = <<>> THEN JSString("")
    ELSE [ty |-> "string", b |-> FALSE, n |-> 0, s |-> "text", f |-> text]
TokensOf(v) ==
    IF v.f # <<>> THEN v.f ELSE IF v.s = "" THEN <<>> ELSE <<Word(v.s)>>
\* String(v), as a template literal or a join converts a value
ToText(v) ==
    CASE v.ty = "string" -> TokensOf(v)
      [] v.ty = "number" -> IF v.s = "NaN" THEN <<Word("NaN")>> ELSE <<Num(ToString(v.n))>>
      [] v.ty = "boolean" -> IF v.b THEN <<Lit("true")>> ELSE <<Lit("false")>>
      [] v.ty = "null" -> <<Lit("null")>>
      [] v.ty = "undefined" -> <<Word("undefined")>>
      [] v.ty = "object" -> <<Word("[object Object]")>>
      [] v.ty = "array" -> <<Word("<items>")>>
\* a || b
Or(v, default) == IF Truthy(v) THEN v ELSE default

\* the characters of the strings that stand where an object is expected
Characters(str) == CASE str = "x" -> <<"x">> [] str = "" -> <<>>
\* the own enumerable properties { ...v } copies (line 49)
OwnMembers(v) ==
    CASE v.ty \in {"object", "array"} -> v.f
      [] v.ty = "string" ->
           [i \in DOMAIN Characters(v.s) |->
               Member(ToString(i - 1), JSString(Characters(v.s)[i]))]
      [] OTHER -> <<>>

\* context.userLocation.split(',') (line 51): the pieces between commas
RECURSIVE SplitAt(_, _, _)
SplitAt(text, sep, piece) ==
    IF text = <<>> THEN <<piece>>
    ELSE IF Head(text) = sep THEN <<piece>> \o SplitAt(Tail(text), sep, <<>>)
    ELSE SplitAt(Tail(text), sep, Append(piece, Head(text)))
Split(text, sep) == SplitAt(text, sep, <<>>)
\* Number(piece): blank is 0, a numeral its value, anything else NaN
ToNumber(piece) ==
    LET trimmed == Trim(piece) IN
    IF trimmed = <<>> THEN JSNumber(0)
    ELSE IF Len(trimmed) = 1 /\ trimmed[1].k = "num"
         THEN JSNumber(NumeralValue(trimmed[1].s))
    ELSE JSNaN
\* [lat, lng] = pieces.map(Number): a missing piece is undefined
Coordinate(pieces, i) ==
    IF i <= Len(pieces) THEN ToNumber(pieces[i]) ELSE JSUndefined

\* a request's context: undefined, or an object whose userLocation is a
\* text (empty where the field is missing)
NoContext == [defined |-> FALSE, userLocation |-> <<>>]
Context(location) == [defined |-> TRUE, userLocation |-> location]

\* lines 48-56
MergedArgsOverwrites(args, context) ==
    LET pieces == Split(context.userLocation, Punct(","))
        lat == Coordinate(pieces, 1)
        lng == Coordinate(pieces, 2)
    IN  IF context.defined /\ context.userLocation # <<>>
           /\ ~IsNaN(lat) /\ ~IsNaN(lng)
        THEN JSObject(Put(Put(OwnMembers(args), "latitude", lat), "longitude", lng))
        ELSE JSObject(OwnMembers(args))
MergedArgs(args, context) ==
    LET pieces == Split(context.userLocation, Punct(","))
        lat == Coordinate(pieces, 1)
        lng == Coordinate(pieces, 2)
    IN  IF context.defined /\ context.userLocation # <<>>
           /\ TypeOf(Get(JSObject(OwnMembers(args)), "latitude")) # "number"
           /\ ~IsNaN(lat) /\ ~IsNaN(lng)
        THEN JSObject(Put(Put(OwnMembers(args), "latitude", lat), "longitude", lng))
        ELSE JSObject(OwnMembers(args))

\* what executeService returned to the turn: an MCPResponse whose data is
\* the remote result as a JavaScript value
NoToolResult == [defined |-> FALSE, success |-> FALSE, data |-> JSUndefined,
                 error |-> ""]
ToolSuccess(data) == [NoToolResult EXCEPT !.defined = TRUE, !.success = TRUE,
                                          !.data = data]
ToolFailure(error) == [NoToolResult EXCEPT !.defined = TRUE, !.error = error]

\* lines 63-75: the structured payload, undefined or another falsy value
\* where there is none
PrimaryResult(data) == Get(Get(data, "structuredContent"), "result")
HasTextContent(data) ==
    LET content == Get(data, "content") IN
    /\ content.ty = "array" /\ Len(content.f) > 0
    /\ Get(content.f[1].val, "text").ty = "string"
NestedText(data) == TokensOf(Get(Get(data, "content").f[1].val, "text"))
StructuredResultPrimaryOnly(data) == PrimaryResult(data)
StructuredResult(data) ==
    IF ~Truthy(PrimaryResult(data)) /\ HasTextContent(data)
    THEN IF JSONParse(NestedText(data)).ok
         THEN JSONParse(NestedText(data)).val
         ELSE PrimaryResult(data)
    ELSE PrimaryResult(data)

\* array.join(separator) of texts
RECURSIVE JoinTexts(_, _)
JoinTexts(texts, separator) ==
    IF texts = <<>> THEN <<>>
    ELSE IF Len(texts) = 1 THEN texts[1]
    ELSE texts[1] \o separator \o JoinTexts(Tail(texts), separator)
\* items.join(', '): null and undefined items give the empty string
JoinItems(items) ==
    JoinTexts([i \in DOMAIN items |->
                  IF items[i].val.ty \in {"null", "undefined"} THEN <<>>
                  ELSE ToText(items[i].val)],
              <<Word(", ")>>)

\* what a formatting rule does: sets the text, leaves it, or raises
Leave == [kind |-> "leave", text |-> <<>>]
SetText(text) == [kind |-> "set", text |-> text]
TypeError == [kind |-> "raise", text |-> <<>>]

\* lines 96-100: one whistle's line; w?.tags?.join is called on whatever
\* tags is unless it is null or undefined
TagsRaises(w) == Get(w, "tags").ty \notin {"undefined", "null", "array"}
WhistleLine(w, idx) ==
    LET description == ToText(Or(Get(w, "description"), JSString("Whistle")))
        joined == IF Get(w, "tags").ty = "array"
                  THEN JoinItems(Get(w, "tags").f) ELSE <<>>
        tags == IF joined = <<>> THEN <<Word("No tags")>> ELSE joined
    IN  <<Num(ToString(idx)), Word(". ")>> \o description \o <<Word(" (Tags: ")>>
        \o tags \o <<Word(")")>>
\* lines 90-108
FormatWhistles(structuredResult) ==
    LET whistles == Get(structuredResult, "whistles") IN
    IF whistles.ty # "array" THEN Leave
    ELSE IF Len(whistles.f) = 0 THEN SetText(<<Word("No whistles found.")>>)
    ELSE IF \E i \in DOMAIN whistles.f : TagsRaises(whistles.f[i].val)
         THEN TypeError
    ELSE SetText(<<Word("Found "), Num(ToString(Len(whistles.f))), Word(" whistles:"),
                   NL, NL>>
                 \o JoinTexts([i \in DOMAIN whistles.f |->
                                  WhistleLine(whistles.f[i].val, i)], <<NL>>))

\* lines 114-118: one provider's lines
ProviderLines(p, idx) ==
    LET name == Or(Get(p, "name"), Or(Get(p, "businessName"), JSString("Provider")))
        phone == Or(Get(p, "phone"), JSString("N/A"))
        rating == Get(p, "rating")
        ratingVal == IF rating.ty = "number"
                     THEN IF rating.s = "NaN" THEN <<Word("NaN")>>
                          ELSE <<Num(ToString(rating.n)), Word(".0")>>
                     ELSE IF rating.ty \in {"null", "undefined"} THEN <<Word("N/A")>>
                     ELSE ToText(rating)
    IN  <<Num(ToString(idx)), Word(". ")>> \o ToText(name)
        \o <<NL, Word("   Phone: ")>> \o ToText(phone)
        \o <<NL, Word("   Rating: ")>> \o ratingVal
\* lines 109-127
FormatProviders(structuredResult) ==
    LET providers == Get(structuredResult, "providers") IN
    IF providers.ty # "array" THEN Leave
    ELSE IF Len(providers.f) = 0
         THEN SetText(<<Word("No nearby providers found for your search. Try increasing radius or changing the keyword.")>>)
    ELSE SetText(<<Word("Found "), Num(ToString(Len(providers.f))),
                   Word(" result(s) near your location:"), NL, NL>>
                 \o JoinTexts([i \in DOMAIN providers.f |->
                                  ProviderLines(providers.f[i].val, i)], <<NL>>))

\* lines 128-152
FormatProfile(structuredResult, message) ==
    LET userProfile == Get(structuredResult, "data")
        name == ToText(Or(Get(userProfile, "name"), JSString("N/A")))
        phone == ToText(Or(Get(userProfile, "countryCode"), JSString("")))
                 \o ToText(Or(Get(userProfile, "phone"), JSString("N/A")))
        verified == Truthy(Get(userProfile, "verified"))
        active == Truthy(Get(userProfile, "active"))
    IN  IF ~Truthy(userProfile)
        THEN SetText(<<Word("User profile data not found.")>>)
        ELSE IF Includes(message, "name")
        THEN SetText(<<Word("Your name is ")>> \o name \o <<Word(".")>>)
        ELSE IF Includes(message, "phone") \/ Includes(message, "number")
        THEN SetText(<<Word("Your phone number is ")>> \o phone \o <<Word(".")>>)
        ELSE IF Includes(message, "status") \/ Includes(message, "verified")
        THEN SetText(<<Word("Your account is "),
                       Word(IF verified THEN "verified" ELSE "not verified"),
                       Word(" and "),
                       Word(IF active THEN "active" ELSE "inactive"), Word(".")>>)
        ELSE SetText(<<Word("User Profile:"), NL, Word("Name: ")>> \o name
                     \o <<NL, Word("Phone: ")>> \o phone
                     \o <<NL, Word("Verified: "), Word(IF verified THEN "Yes" ELSE "No"),
                          NL, Word("Active: "), Word(IF active THEN "Yes" ELSE "No")>>)

\* lines 82-89: sign_in, verify_otp, create_whistle
FormatMessage(structuredResult) ==
    IF Truthy(Get(structuredResult, "message"))
    THEN SetText(ToText(Get(structuredResult, "message"))) ELSE Leave

\* lines 153-165
FormatVisibility(structuredResult) ==
    LET visible == Get(Get(structuredResult, "data"), "visible") IN
    IF Truthy(Get(structuredResult, "message"))
    THEN SetText(ToText(Get(structuredResult, "message")))
    ELSE IF visible.ty # "undefined"
    THEN SetText(<<Word("User visibility "),
                   Word(IF Truthy(visible) THEN "enabled" ELSE "disabled"), Word(".")>>)
    ELSE SetText(<<Word("User visibility updated, but status is unclear.")>>)

\* JSON.stringify(v, null, 2)
Indent(depth) == [i \in 1..(2 * depth) |-> SP]
RECURSIVE JSONStringify(_, _)
JSONStringify(v, depth) ==
    CASE v.ty = "string" -> <<Str(v.s)>>
      [] v.ty = "number" -> IF v.s = "NaN" THEN <<Lit("null")>> ELSE <<Num(ToString(v.n))>>
      [] v.ty = "boolean" -> IF v.b THEN <<Lit("true")>> ELSE <<Lit("false")>>
      [] v.ty \in {"null", "undefined"} -> <<Lit("null")>>
      [] v.ty = "array" ->
           IF v.f = <<>> THEN <<Punct("["), Punct("]")>>
           ELSE <<Punct("["), NL>>
                \o JoinTexts([i \in DOMAIN v.f |->
                                 Indent(depth + 1) \o JSONStringify(v.f[i].val, depth + 1)],
                             <<Punct(","), NL>>)
                \o <<NL>> \o Indent(depth) \o <<Punct("]")>>
      [] v.ty = "object" ->
           IF v.f = <<>> THEN <<Punct("{"), Punct("}")>>
           ELSE <<Punct("{"), NL>>
                \o JoinTexts([i \in DOMAIN v.f |->
                                 Indent(depth + 1) \o <<Str(v.f[i].key), Punct(":"), SP>>
                                 \o JSONStringify(v.f[i].val, depth + 1)],
                             <<Punct(","), NL>>)
                \o <<NL>> \o Indent(depth) \o <<Punct("}")>>
\* lines 166-175
FormatDefault(structuredResult) ==
    IF Truthy(Get(structuredResult, "message"))
    THEN SetText(ToText(Get(structuredResult, "message")))
    ELSE SetText(JSONStringify(structuredResult, 0))

\* lines 79-177: the rule of the executed tool's name
FormatStructured(executedTool, structuredResult, message) ==
    CASE executedTool \in {JSString("sign_in"), JSString("verify_otp"),
                           JSString("create_whistle")} ->
             FormatMessage(structuredResult)
      [] executedTool = JSString("list_whistles") -> FormatWhistles(structuredResult)
      [] executedTool = JSString("search_businesses") -> FormatProviders(structuredResult)
      [] executedTool = JSString("get_user_profile") ->
             FormatProfile(structuredResult, message)
      [] executedTool = JSString("toggle_visibility") ->
             FormatVisibility(structuredResult)
      [] OTHER -> FormatDefault(structuredResult)

GenericSuccessText ==
    <<Word("Tool executed successfully, but no specific message or structured content found.")>>
FailureTextPrefix == Word("Tool call failed: ")
\* lines 62-189
FormatResultHidesError(executedTool, toolResult, message) ==
    IF toolResult.success
    THEN IF Truthy(StructuredResult(toolResult.data))
         THEN FormatStructured(executedTool, StructuredResult(toolResult.data), message)
         ELSE IF Truthy(Get(toolResult.data, "message"))
         THEN SetText(ToText(Get(toolResult.data, "message")))
         ELSE SetText(GenericSuccessText)
    ELSE SetText(<<FailureTextPrefix, Word("Unknown error")>>)
FormatResult(executedTool, toolResult, message) ==
    IF toolResult.success
    THEN IF Truthy(StructuredResult(toolResult.data))
         THEN FormatStructured(executedTool, StructuredResult(toolResult.data), message)
         ELSE IF Truthy(Get(toolResult.data, "message"))
         THEN SetText(ToText(Get(toolResult.data, "message")))
         ELSE SetText(GenericSuccessText)
    ELSE SetText(<<FailureTextPrefix>>
                 \o ToText(Or(JSString(toolResult.error), JSString("Unknown error"))))


(***************************************************************************)
(* Auth headers (setAuth, lines 92-107) and the headers a transport is     *)
(* built with (connect, lines 42-59).  A header that is not set is Absent. *)
(***************************************************************************)
Absent == [scheme |-> "", cred |-> ""]
NoAuthHeaders == [Authorization |-> Absent, XUserId |-> ""]
NoHeaders == [ContentType |-> "", Accept |-> "", Authorization |-> Absent,
              XUserId |-> ""]
\* setAuth's arguments: an access token is a credential with or without a
\* scheme word in front; NoToken and NoUser are undefined (or empty).
NoToken == Absent
NoUser == ""
AuthInputs ==
    { [accessToken |-> [scheme |-> "", cred |-> "t1"], userId |-> "u1"],
      [accessToken |-> [scheme |-> "bearer", cred |-> "t2"], userId |-> NoUser],
      [accessToken |-> NoToken, userId |-> NoUser] }
\* line 96: accessToken.toLowerCase().startsWith('bearer ')
StartsWithBearer(accessToken) == accessToken.scheme \in {"Bearer", "bearer", "BEARER"}
\* lines 93-101
AuthHeadersFor(accessToken, userId) ==
    [Authorization |->
        IF accessToken = NoToken THEN Absent
        ELSE IF StartsWithBearer(accessToken) THEN accessToken
        ELSE [scheme |-> "Bearer", cred |-> accessToken.cred],
     XUserId |-> userId]
\* lines 50-57: the fixed headers, then ...this.authHeaders
TransportHeadersNone(auth) == NoHeaders
TransportHeaders(auth) ==
    [ContentType |-> "application/json", Accept |-> "application/json",
     Authorization |-> auth.Authorization, XUserId |-> auth.XUserId]

(***************************************************************************)
(* Requests, model replies and remote results the turns are run on.        *)
(***************************************************************************)
\* source texts of JSON values
EmptyObject == <<Punct("{"), Punct("}")>>
Directive(tool, args) ==
    <<Punct("{"), Str("tool"), Punct(":"), tool, Punct(","), SP, Str("args"), Punct(":")>>
    \o args \o <<Punct("}")>>
ListWhistles == Directive(Str("list_whistles"), EmptyObject)
ArgsWithLatitude ==
    <<Punct("{"), Str("latitude"), Punct(":"), Num("7"), Punct(","), Str("keyword"), Punct(":"),
      Str("burger"), Punct("}")>>
ArgsWithTextLatitude ==
    <<Punct("{"), Str("latitude"), Punct(":"), Str("7"), Punct(","), Str("longitude"), Punct(":"),
      Num("2"), Punct("}")>>
ArgsWithKeyword == <<Punct("{"), Str("keyword"), Punct(":"), Str("burger"), Punct("}")>>
ToolNameTokens ==
    {Str("list_whistles"), Str("sign_in"), Str("search_businesses"),
     Str("get_user_profile"), Str("toggle_visibility"), Str("get_offers")}

\* replies without JSON
PlainReplies ==
    { <<Word("Sure")>>,
      <<Word("Booking"), SP, Word("done")>>,
      <<Word("Your"), SP, Word("LOCATION")>>,
      <<Word("The"), SP, Word("price")>>,
      <<>> }
\* replies that are one JSON object with tool and args of the declared types
WholeDirectives ==
    {Directive(t, EmptyObject) : t \in ToolNameTokens}
    \cup {Directive(Str("search_businesses"), a) :
            a \in {ArgsWithLatitude, ArgsWithTextLatitude, ArgsWithKeyword}}
    \cup {<<NL>> \o ListWhistles \o <<SP, NL>>}
\* replies that are one JSON value of another shape
OtherJsonReplies ==
    { Directive(Num("7"), EmptyObject),
      Directive(Str("list_whistles"), <<Str("x")>>),
      Directive(Str("list_whistles"), <<Num("7")>>),
      Directive(Str("list_whistles"), <<Lit("true")>>),
      Directive(Str("list_whistles"), <<Punct("["), Num("1"), Punct("]")>>),
      Directive(Str(""), EmptyObject),
      Directive(Str("list_whistles"), <<Lit("null")>>),
      <<Punct("{"), Str("tool"), Punct(":"), Str("list_whistles"), Punct("}")>>,
      <<Punct("["), Punct("]")>>,
      EmptyObject }
\* replies whose JSON does not parse
MalformedReplies ==
    { <<Punct("{"), Str("tool"), Punct("}")>>,
      <<Punct("{"), Str("tool"), Punct(":"), Str("list_whistles"), Punct(","), Punct("}")>>,
      <<Punct("{"), Word("Booking"), Punct("}")>>,
      <<Word("Sure"), NL, FENCE, Word("json"), NL, Punct("{"), Str("tool"), Punct(":"), NL, FENCE>>,
      <<FENCE, NL, SP, NL, FENCE>>,
      ListWhistles \o <<SP, Word("Sure")>> }
\* replies with fenced blocks
FencedReplies ==
    { <<Word("Sure"), NL, FENCE, Word("json"), NL>> \o ListWhistles \o <<NL, FENCE>>,
      <<FENCE, NL>> \o Directive(Str("sign_in"), ArgsWithKeyword)
          \o <<FENCE, SP, Word("Booking")>>,
      <<FENCE, SP, NL>> \o ListWhistles \o <<FENCE>>,
      <<FENCE, NL, FENCE>>,
      <<FENCE, NL, Word("Sure"), NL, FENCE, NL, FENCE, NL>> \o ListWhistles \o <<FENCE>>,
      <<Punct("{"), NL, FENCE, NL>> \o ListWhistles \o <<FENCE, Punct("}")>>,
      <<FENCE, Word("json"), NL>> \o Directive(Num("7"), <<Str("x")>>) \o <<FENCE>> }
Replies ==
    PlainReplies \cup WholeDirectives \cup OtherJsonReplies
    \cup MalformedReplies \cup FencedReplies

\* user messages
Messages ==
    { <<Word("hello")>>,
      <<Word("What"), SP, Word("PRICE")>>,
      <<Word("rebook"), SP, Word("price")>>,
      <<Word("Booking")>>,
      <<Word("my"), SP, Word("location")>>,
      <<Word("Name")>>,
      <<Word("phone")>>,
      <<Word("status")>> }
\* context.userLocation
Locations ==
    { <<Num("10"), Punct(","), Num("76")>>,
      <<SP, Num("10"), SP, Punct(","), Num("76")>>,
      <<Num("10")>>,
      <<Num("10"), Punct(","), Word("east")>>,
      <<Word("north"), Punct(","), Num("76")>>,
      <<Punct(",")>>,
      <<Num("1"), Punct(","), Num("2"), Punct(","), Num("7")>>,
      <<>> }
Contexts == {NoContext} \cup {Context(l) : l \in Locations}
\* the Authorization and X-User-Id headers of a request
RequestHeaders ==
    { [authorization |-> [scheme |-> "Bearer", cred |-> "t1"], xUserId |-> "u1"],
      [authorization |-> [scheme |-> "bearer", cred |-> "t2"], xUserId |-> NoUser],
      [authorization |-> Absent, xUserId |-> NoUser] }
AnonymousHeaders == [authorization |-> Absent, xUserId |-> NoUser]
Request(message, context, headers) ==
    [message |-> message, context |-> context, headers |-> headers]
Requests ==
    {Request(m, NoContext, AnonymousHeaders) : m \in Messages}
    \cup {Request(<<Word("hello")>>, c, AnonymousHeaders) : c \in Contexts}
    \cup {Request(<<Word("hello")>>, NoContext, h) : h \in RequestHeaders}

\* whistles as the remote tool may list them: with a description and tags,
\* null, and with tags that are not a list
WhistleItems ==
    { JSObject(<<Member("description", JSString("Ride")),
                 Member("tags", JSArray(<<Member("0", JSString("car")),
                                          Member("1", JSString("pool"))>>))>>),
      JSNull,
      JSObject(<<Member("description", JSString("Bus")),
                 Member("tags", JSString("x"))>>) }
RECURSIVE ListsUpTo(_, _)
ListsUpTo(items, len) ==
    IF len = 0 THEN {<<>>}
    ELSE ListsUpTo(items, len - 1)
         \cup {Append(l, Member(ToString(Len(l)), i)) :
                  l \in {k \in ListsUpTo(items, len - 1) : Len(k) = len - 1},
                  i \in items}
WhistleLists == {JSArray(l) : l \in ListsUpTo(WhistleItems, MaxWhistles)}
Profile ==
    JSObject(<<Member("name", JSString("Ann")), Member("phone", JSString("555")),
               Member("verified", JSBool(TRUE))>>)
Providers ==
    JSArray(<<Member("0", JSObject(<<Member("name", JSString("Cafe")),
                                     Member("rating", JSNumber(2))>>)),
              Member("1", JSObject(<<>>))>>)
Payloads ==
    {JSObject(<<Member("whistles", l)>>) : l \in WhistleLists}
    \cup { JSObject(<<Member("whistles", JSString("x"))>>),
           JSObject(<<Member("message", JSString("OTP sent"))>>),
           JSObject(<<>>),
           JSObject(<<Member("data", Profile)>>),
           JSObject(<<Member("data", JSObject(<<Member("visible", JSBool(FALSE))>>))>>),
           JSObject(<<Member("providers", Providers)>>),
           JSObject(<<Member("providers", JSArray(<<>>))>>) }
\* a remote result: content items, then structuredContent and message where
\* there are any
TextItem(text) ==
    JSObject(<<Member("type", JSString("text")), Member("text", JSText(text))>>)
Content(text) == Member("content", JSArray(<<Member("0", TextItem(text))>>))
Structured(payload) ==
    JSObject(<<Content(<<Word("ok")>>),
               Member("structuredContent", JSObject(<<Member("result", payload)>>))>>)
Nested(payload) == JSObject(<<Content(JSONStringify(payload, 0))>>)
RemoteResults ==
    {Structured(pl) : pl \in Payloads}
    \cup {Nested(pl) : pl \in Payloads}
    \cup { JSObject(<<Content(<<Word("done")>>)>>),
           JSObject(<<Content(<<Word("done")>>), Member("message", JSString("Created"))>>),
           JSObject(<<Content(<<Lit("null")>>), Member("message", JSString("Created"))>>),
           JSObject(<<Content(<<Lit("null")>>), Member("message", JSString(""))>>),
           JSObject(<<Member("content", JSArray(<<>>))>>),
           JSObject(<<Content(JSONStringify(JSObject(<<Member("message",
                                                       JSString("OTP sent"))>>), 0)),
                      Member("structuredContent",
                             JSObject(<<Member("result", JSNumber(0))>>)),
                      Member("message", JSString("Created"))>>),
           JSObject(<<Content(<<Num("7")>>)>>),
           JSUndefined }
ExecutionErrors == {"timeout", "Unknown error", ""}
ExecutionResults ==
    {ToolSuccess(d) : d \in RemoteResults}
    \cup {ToolFailure(e) : e \in ExecutionErrors}

(***************************************************************************)
(* A turn: one invocation of processMessage.                               *)
(***************************************************************************)
IdleTurn ==
    [ pc |-> "idle",          \* start | model | exec | done: whether the
                              \* handler has begun and which await it is at
      message |-> <<>>,       \* req.body.message
      context |-> NoContext,  \* req.body.context
      headers |-> AnonymousHeaders,
      modelFailed |-> FALSE,  \* the model call raised
      reply |-> <<>>,         \* the content of the model's completion
      ai |-> AIResponse(<<>>, <<>>, <<>>),  \* aiResponse
      called |-> FALSE,       \* executeService was invoked
      tool |-> JSUndefined,   \* and its arguments
      args |-> JSUndefined,
      directiveArgs |-> JSUndefined,  \* args of the directive (line 43)
      toolExecuted |-> FALSE,
      toolResult |-> NoToolResult,
      status |-> "none" ]     \* sent: res.json(response); raised: an
                              \* exception left the handler
NewTurn(request) ==
    [IdleTurn EXCEPT !.pc = "start", !.message = request.message,
                     !.context = request.context, !.headers = request.headers]

\* line 19: req.headers.authorization?.replace('Bearer ', '')
StripBearer(authorization) ==
    IF authorization.scheme = "Bearer"
    THEN [scheme |-> "", cred |-> authorization.cred]
    ELSE authorization

\* OpenAIService.processMessage, lines 100-111
DefaultReplyText ==
    <<Word("I'm here to help with DoWhistle - rides, local services, and nearby offers. What do you need?")>>
ApologyText ==
    <<Word("I'm having trouble responding right now. Please try again, or tell me how I can help with DoWhistle services.")>>
ModelResponse(content, message) ==
    parseAIResponse(IF content = <<>> THEN DefaultReplyText ELSE content, message)
ModelFailure == AIResponse(ApologyText, <<>>, <<>>)

\* aiResponse.actions?.find(a => a.type === 'mcp_tool') (line 41)
ToolAction(aiResponse) ==
    LET hits == {i \in DOMAIN aiResponse.actions :
                    aiResponse.actions[i].type = "mcp_tool"}
    IN  IF hits = {} THEN 0 ELSE Min(hits)

\* lines 193-200
Respond(rec) == [rec EXCEPT !.pc = "done", !.status = "sent"]

\* lines 37-58: from the model's answer to the call of the executor
AfterModel(rec, aiResponse) ==
    LET toolAction == ToolAction(aiResponse)
        data == IF Truthy(aiResponse.actions[toolAction].data)
                THEN aiResponse.actions[toolAction].data ELSE JSObject(<<>>)
        tool == Get(data, "tool")
        args == Get(data, "args")
    IN  IF toolAction # 0 /\ Truthy(tool) /\ Truthy(args)
        THEN [rec EXCEPT !.ai = aiResponse, !.pc = "exec", !.called = TRUE,
                         !.tool = tool, !.directiveArgs = args,
                         !.args = MergedArgs(args, rec.context)]
        ELSE Respond([rec EXCEPT !.ai = aiResponse])

\* lines 58-189: from the executor's answer to the final text
AfterExecuteKeepsFlag(rec, result) ==
    LET format == FormatResult(rec.tool, result, rec.message)
        done == [rec EXCEPT !.toolResult = result]
    IN  IF format.kind = "raise"
        THEN [done EXCEPT !.pc = "done", !.status = "raised"]
        ELSE IF format.kind = "set"
        THEN Respond([done EXCEPT !.ai.text = format.text])
        ELSE Respond(done)
AfterExecute(rec, result) ==
    LET format == FormatResult(rec.tool, result, rec.message)
        done == [rec EXCEPT !.toolResult = result, !.toolExecuted = TRUE]
    IN  IF format.kind = "raise"
        THEN [done EXCEPT !.pc = "done", !.status = "raised"]
        ELSE IF format.kind = "set"
        THEN Respond([done EXCEPT !.ai.text = format.text])
        ELSE Respond(done)

(***************************************************************************)
(* Request sanitizer (executeService, lines 157-169).                      *)
(***************************************************************************)
\* this.toolCache.find((t) => t.name === serviceName): index of the first
\* entry with that name, 0 when there is none.
FindTool(cache, serviceName) ==
    LET hits == {i \in DOMAIN cache : cache[i].name = serviceName}
    IN  IF hits = {} THEN 0 ELSE CHOOSE i \in hits : \A j \in hits : i <= j

\* tool?.inputSchema?.properties is truthy
HasProperties(cache, serviceName) ==
    LET i == FindTool(cache, serviceName)
    IN  /\ i # 0
        /\ cache[i].inputSchema.present
        /\ cache[i].inputSchema.hasProps

\* Object.keys(tool.inputSchema.properties)
Allowed(cache, serviceName) ==
    Range(cache[FindTool(cache, serviceName)].inputSchema.props)

\* the filter predicate of line 166
KeepKeyAlwaysToken(allowed, k) ==
    k \in allowed \/ k = AccessTokenKey
KeepKey(allowed, k) ==
    LET accessTokenAllowed == AccessTokenKey \in allowed
    IN  k \in allowed \/ (k = AccessTokenKey /\ accessTokenAllowed)

\* the filter predicate of line 168
IsDroppedNeverToken(allowed, k) ==
    k \notin allowed /\ k # AccessTokenKey
IsDropped(allowed, k) ==
    LET accessTokenAllowed == AccessTokenKey \in allowed
    IN  k \notin allowed /\ ~(k = AccessTokenKey /\ accessTokenAllowed)

Restrict(f, S) == [k \in S |-> f[k]]

SafeParamsUnfiltered(cache, serviceName, params) == params
SafeParamsFailClosed(cache, serviceName, params) ==
    IF FindTool(cache, serviceName) = 0
    THEN NoArgs
    ELSE IF HasProperties(cache, serviceName)
         THEN Restrict(params, {k \in DOMAIN params :
                                   KeepKey(Allowed(cache, serviceName), k)})
         ELSE params
SafeParams(cache, serviceName, params) ==
    IF HasProperties(cache, serviceName)
    THEN Restrict(params, {k \in DOMAIN params :
                              KeepKey(Allowed(cache, serviceName), k)})
    ELSE params

DroppedKeys(cache, serviceName, params) ==
    IF HasProperties(cache, serviceName)
    THEN {k \in DOMAIN params : IsDropped(Allowed(cache, serviceName), k)}
    ELSE {}

(***************************************************************************)
(* Connection manager helpers.                                             *)
(***************************************************************************)
\* line 80: this.reconnectAttempts < this.maxReconnectAttempts
MayRetryAlways(attempts) == TRUE
MayRetryOffByOne(attempts) == attempts <= maxReconnectAttempts
MayRetry(attempts) == attempts < maxReconnectAttempts

\* line 85: 2000 * this.reconnectAttempts, with the counter already incremented
RetryDelayFromOld(attempts) == RetryBaseDelayMs * (attempts - 1)
RetryDelay(attempts) == RetryBaseDelayMs * attempts

\* line 131: the refresh is skipped when not forced and the cache is young
RefreshDue(force, t, last) == ~(~force /\ t - last < toolSyncIntervalMs)

\* lines 151, 198: !(await this.ensureConnected()) || !this.client
NotConnectedGuardClientOnly(connected, cl) == cl = NoHandle
NotConnectedGuard(connected, cl) == ~connected \/ cl = NoHandle

\* line 34: this.isConnected && this.client
AlreadyConnectedNever(conn, cl) == FALSE
AlreadyConnected(conn, cl) == conn /\ cl # NoHandle

\* lines 186-193: error instanceof Error ? error.message : 'Unknown error'
\* What the awaited SDK call may raise: an Error with a message, an Error
\* whose message is the empty string (new Error()), or a value that is not
\* an Error.
NonError == "<non-Error value>"
RemoteErrors == {"timeout", "", NonError}
ErrorMessage(e) == IF e = NonError THEN "Unknown error" ELSE e
\* this.client.callTool with this.client === null
NullClientError == "Cannot read properties of null"
\* Object.entries(params), Object.keys(safeParams) with params === null
NullParamsError == "Cannot convert undefined or null to object"
NotConnectedError == "Not connected to MCP server"

(***************************************************************************)
(* In-flight calls.                                                        *)
(***************************************************************************)
\* What a call hands to its caller: an MCPResponse it returned, or an
\* exception that left it (thrown).
NoResult == [success |-> FALSE, error |-> "", data |-> "none", tools |-> <<>>,
             thrown |-> FALSE]
Failure(msg) == [NoResult EXCEPT !.error = msg]
Success(d) == [NoResult EXCEPT !.success = TRUE, !.data = d]
Raised(e) == [NoResult EXCEPT !.error = e, !.thrown = TRUE]
\* line 206: { success: true, data: tools }, tools.tools being the listing
SuccessTools(listing) == [Success("tools") EXCEPT !.tools = listing]

\* lines 184-194, 207-215: the catch block turns what was raised into a
\* returned failure
CaughtRethrows(e) == Raised(e)
Caught(e) == Failure(ErrorMessage(e))

\* The fields of the log records executeService writes: lines 171-175 on
\* the way to the remote call, lines 185-189 in the catch block.
NoLog == [serviceName |-> "none", sentParams |-> {}, droppedParams |-> {},
          params |-> NoArgs]
InfoLog(serviceName, safeParams, droppedKeys) ==
    [NoLog EXCEPT !.serviceName = serviceName,
                  !.sentParams = DOMAIN safeParams,
                  !.droppedParams = droppedKeys]
ErrorLog(serviceName, params) ==
    [NoLog EXCEPT !.serviceName = serviceName, !.params = params]

Idle ==
    [ op |-> "idle",       \* connect | disconnect | execute | listTools
      pc |-> "idle",       \* where the call is suspended
      h |-> NoHandle,      \* the object the awaited I/O was issued on
      tool |-> "none", args |-> NoArgs,
      t0 |-> 0,            \* `now` of the refreshTools call in progress, if any
      fetch |-> "none",    \* outcome of connect()'s refreshTools(true), kept
                           \* until connect() has returned
      called |-> FALSE,    \* client.callTool was invoked
      sent |-> NoArgs, dropped |-> {},
      log |-> NoLog,       \* the last log record executeService wrote
      sched |-> 0,         \* delay of the retry timer this call scheduled
      exhausted |-> FALSE, \* this connect() was called with the automatic
                           \* retries exhausted
      ret |-> FALSE,       \* connect()'s return value
      caller |-> "api",    \* who awaits the call: the HTTP API, syncTools
                           \* (a timer's cycle) or startSync
      published |-> FALSE, \* syncTools called setAvailableTools
      res |-> NoResult ]   \* the MCPResponse returned

Done(rec, r) == [rec EXCEPT !.pc = "done", !.h = NoHandle, !.res = r]

\* executeService from the sanitization to the remote call (lines 157-180),
\* run in one piece: there is no await between find() and callTool().
ExecCatch(rec, e) ==
    Done([rec EXCEPT !.log = ErrorLog(rec.tool, rec.args)], Caught(e))
ExecIssueCall(rec, cl, cache) ==
    LET safeParams == SafeParams(cache, rec.tool, rec.args)
        droppedKeys == DroppedKeys(cache, rec.tool, rec.args)
        logged == [rec EXCEPT !.sent = safeParams, !.dropped = droppedKeys,
                              !.log = InfoLog(rec.tool, safeParams, droppedKeys)]
    IN  IF rec.args = NullParams
        THEN \* Object.entries(params) (line 166) or Object.keys(safeParams)
             \* (line 173) raises a TypeError before anything is logged
             ExecCatch(rec, NullParamsError)
        ELSE IF cl = NoHandle
        THEN ExecCatch(logged, NullClientError)
        ELSE [logged EXCEPT !.pc = "e_call", !.h = cl, !.called = TRUE]

\* executeService after ensureConnected() returned `connected` (lines 151-156)
ExecAfterEnsure(rec, connected, cl, cache, last, t) ==
    IF NotConnectedGuard(connected, cl)
    THEN Done(rec, Failure(NotConnectedError))
    ELSE IF RefreshDue(FALSE, t, last) /\ cl # NoHandle
         THEN [rec EXCEPT !.pc = "e_refresh", !.h = cl, !.t0 = t,
                          !.fetch = "none"]
         ELSE ExecIssueCall([rec EXCEPT !.fetch = "none"], cl, cache)

\* listTools after ensureConnected() returned `connected` (lines 198-202)
ListAfterEnsure(rec, connected, cl) ==
    IF NotConnectedGuard(connected, cl)
    THEN Done(rec, Failure(NotConnectedError))
    ELSE [rec EXCEPT !.pc = "l_list", !.h = cl, !.fetch = "none"]

\* connect() returns r to the code that called it
AfterConnect(rec, r, cl, cache, last, t) ==
    CASE rec.op = "execute" -> ExecAfterEnsure(rec, r, cl, cache, last, t)
      [] rec.op = "listTools" -> ListAfterEnsure(rec, r, cl)
      [] OTHER -> [rec EXCEPT !.pc = "done", !.h = NoHandle, !.ret = r]

\* line 73: connect() returns true whatever the refresh did
ConnectResultNeedsFetch(fetched) == fetched
ConnectResult(fetched) == TRUE

\* Objects nothing refers to any more are forgotten once they are closed.
Refs(cl, tr, cs) == ({cl, tr} \cup {cs[p].h : p \in Procs}) \ {NoHandle}
Collect(s, cl, tr, cs) ==
    [h \in Handles |->
        IF s[h] = "closed" /\ h \notin Refs(cl, tr, cs) THEN "free" ELSE s[h]]

\* A call that returned hands its result to its caller in the same turn of
\* the event loop, before any other callback runs.
NoneReturning == \A p \in Procs : calls[p].pc # "done"

InFlightConnects == Cardinality({p \in Procs : calls[p].pc = "c_open"})

\* lines 80-86: the retries are exhausted when the counter has reached the
\* maximum and no retry is pending or running
Exhausted ==
    /\ reconnectAttempts = maxReconnectAttempts
    /\ timers = 0
    /\ InFlightConnects = 0
    /\ ~isConnected

\* A transport keeps the headers it was built with for as long as it exists.
KeepHeaders ==
    hdrs' = [h \in Handles |-> IF sess'[h] = "free" THEN NoHeaders ELSE hdrs[h]]

(***************************************************************************)
(* connect() (lines 38-90).                                                *)
(***************************************************************************)
\* lines 39-66: build the transport and the client, start opening the session
BeginConnect(p, rec) ==
    LET avail == {h \in Handles :
                    Collect(sess, NoHandle, NoHandle, calls)[h] = "free"}
    IN  /\ avail # {}
        /\ LET h == CHOOSE x \in avail : \A y \in avail : x <= y
           IN  /\ transport' = h
               /\ client' = h
               /\ calls' = [calls EXCEPT ![p] =
                     [rec EXCEPT !.pc = "c_open", !.h = h,
                                 !.exhausted = Exhausted]]
               /\ sess' = Collect([sess EXCEPT ![h] = "pending"], h, h, calls')
               /\ hdrs' = [x \in Handles |->
                     IF x = h THEN TransportHeaders(authHeaders)
                     ELSE IF sess'[x] = "free" THEN NoHeaders ELSE hdrs[x]]
        /\ UNCHANGED <<isConnected, reconnectAttempts, toolCache, lastToolSync, now>>
        /\ UNCHANGED <<authHeaders, server>>
        /\ lastFetch' = "none"

NewCall(op) == [Idle EXCEPT !.op = op]

\* MCPController.connect, startServer: an explicit connect()
StartConnect(p) ==
    /\ NoneReturning
    /\ calls[p].pc = "idle"
    /\ timers + InFlightConnects < MaxTimers
    /\ BeginConnect(p, NewCall("connect"))
    /\ UNCHANGED timers
    /\ UNCHANGED regVars

\* line 85: a retry timer fires and calls connect()
TimerFire(p) ==
    /\ NoneReturning
    /\ calls[p].pc = "idle"
    /\ timers > 0
    /\ timers' = timers - 1
    /\ BeginConnect(p, NewCall("connect"))
    /\ UNCHANGED regVars

\* lines 66-70: the session opened; refreshTools(true) starts
ConnectOpenOk(p) ==
    LET rec == [calls[p] EXCEPT !.exhausted = FALSE]
    IN  /\ NoneReturning
        /\ rec.pc = "c_open"
        /\ sess[rec.h] = "pending"
        /\ isConnected' = TRUE
        /\ reconnectAttempts' = 0
        /\ calls' = [calls EXCEPT ![p] =
              IF RefreshDue(TRUE, now, lastToolSync) /\ client # NoHandle
              THEN [rec EXCEPT !.pc = "c_refresh", !.h = client, !.t0 = now]
              ELSE AfterConnect([rec EXCEPT !.fetch = "skipped", !.h = NoHandle],
                                ConnectResult(FALSE), client, toolCache,
                                lastToolSync, now)]
        /\ sess' = Collect([sess EXCEPT ![rec.h] = "open"], client, transport, calls')
        /\ UNCHANGED <<client, transport, toolCache, lastToolSync, timers, now>>
        /\ KeepHeaders
        /\ lastFetch' = "none"
        /\ UNCHANGED <<authHeaders, server, regVars>>

\* lines 74-89: the open failed
ConnectOpenFail(p) ==
    LET rec == [calls[p] EXCEPT !.h = NoHandle]
        retry == MayRetry(reconnectAttempts)
    IN  /\ NoneReturning
        /\ rec.pc = "c_open"
        /\ isConnected' = FALSE
        /\ reconnectAttempts' = IF retry THEN reconnectAttempts + 1
                                ELSE reconnectAttempts
        /\ timers' = IF retry THEN timers + 1 ELSE timers
        /\ calls' = [calls EXCEPT ![p] =
              AfterConnect([rec EXCEPT !.sched =
                               IF retry THEN RetryDelay(reconnectAttempts') ELSE 0],
                           FALSE, client, toolCache, lastToolSync, now)]
        /\ sess' = Collect([sess EXCEPT ![calls[p].h] = "closed"],
                           client, transport, calls')
        /\ UNCHANGED <<client, transport, toolCache, lastToolSync, now>>
        /\ KeepHeaders
        /\ lastFetch' = "none"
        /\ UNCHANGED <<authHeaders, server, regVars>>

(***************************************************************************)
(* refreshTools() (lines 129-147), awaited by connect() and by             *)
(* executeService().                                                       *)
(***************************************************************************)
AfterRefresh(rec, fetched, cl, cache, last, t) ==
    IF rec.pc = "c_refresh"
    THEN AfterConnect([rec EXCEPT !.h = NoHandle, !.t0 = 0],
                      ConnectResult(fetched), cl, cache, last, t)
    ELSE ExecIssueCall([rec EXCEPT !.h = NoHandle, !.t0 = 0], cl, cache)

\* lines 135-137: the listing arrived
RefreshOk(p) ==
    LET rec == [calls[p] EXCEPT !.fetch =
                   IF calls[p].pc = "c_refresh" THEN "ok" ELSE "none"]
    IN  /\ NoneReturning
        /\ rec.pc \in {"c_refresh", "e_refresh"}
        /\ sess[rec.h] = "open"
        /\ \E listing \in server :
              /\ toolCache' = listing
              /\ lastToolSync' = rec.t0
              /\ calls' = [calls EXCEPT ![p] =
                    AfterRefresh(rec, TRUE, client, toolCache', lastToolSync', now)]
        /\ sess' = Collect(sess, client, transport, calls')
        /\ UNCHANGED <<client, transport, isConnected, reconnectAttempts, timers, now>>
        /\ KeepHeaders
        /\ lastFetch' = "ok"
        /\ UNCHANGED <<authHeaders, server, regVars>>

\* lines 142-146: the fetch raised; logged, not raised
RefreshFail(p) ==
    LET rec == [calls[p] EXCEPT !.fetch =
                   IF calls[p].pc = "c_refresh" THEN "failed" ELSE "none"]
    IN  /\ NoneReturning
        /\ rec.pc \in {"c_refresh", "e_refresh"}
        /\ calls' = [calls EXCEPT ![p] =
              AfterRefresh(rec, FALSE, client, toolCache, lastToolSync, now)]
        /\ sess' = Collect(sess, client, transport, calls')
        /\ UNCHANGED <<client, transport, isConnected, reconnectAttempts,
                       toolCache, lastToolSync, timers, now>>
        /\ KeepHeaders
        /\ lastFetch' = "failed"
        /\ UNCHANGED <<authHeaders, server, regVars>>

(***************************************************************************)
(* executeService() (lines 150-195) and listTools() (lines 197-216).       *)
(***************************************************************************)
\* lines 33-36 then 151: ensureConnected() returns at once when connected,
\* otherwise it is connect()
StartRequest(p, rec) ==
    /\ NoneReturning
    /\ calls[p].pc = "idle"
    /\ IF AlreadyConnected(isConnected, client)
       THEN /\ calls' = [calls EXCEPT ![p] =
                  AfterConnect(rec, TRUE, client, toolCache, lastToolSync, now)]
            /\ sess' = Collect(sess, client, transport, calls')
            /\ UNCHANGED <<client, transport, isConnected, reconnectAttempts,
                           toolCache, lastToolSync, now>>
            /\ KeepHeaders
            /\ lastFetch' = "none"
            /\ UNCHANGED <<authHeaders, server>>
       ELSE /\ timers + InFlightConnects < MaxTimers
            /\ BeginConnect(p, rec)
    /\ UNCHANGED timers

StartExecute(p) ==
    /\ p \in Requesters
    /\ \E r \in ExecRequests :
          StartRequest(p, [NewCall("execute") EXCEPT
                              !.tool = r.tool, !.args = r.args])
    /\ UNCHANGED regVars

StartListTools(p) ==
    /\ p \in Requesters
    /\ StartRequest(p, NewCall("listTools"))
    /\ UNCHANGED regVars

\* lines 177-183: the remote tool call returned
CallOk(p) ==
    /\ NoneReturning
    /\ calls[p].pc = "e_call"
    /\ sess[calls[p].h] = "open"
    /\ calls' = [calls EXCEPT ![p] = Done(calls[p], Success("result"))]
    /\ sess' = Collect(sess, client, transport, calls')
    /\ UNCHANGED <<client, transport, isConnected, reconnectAttempts,
                   toolCache, lastToolSync, timers, now>>
    /\ KeepHeaders
    /\ lastFetch' = "none"
    /\ UNCHANGED <<authHeaders, server, regVars>>

\* lines 184-194: the remote tool call raised
CallFail(p) ==
    /\ NoneReturning
    /\ calls[p].pc = "e_call"
    /\ \E e \in RemoteErrors :
          calls' = [calls EXCEPT ![p] = ExecCatch(calls[p], e)]
    /\ sess' = Collect(sess, client, transport, calls')
    /\ UNCHANGED <<client, transport, isConnected, reconnectAttempts,
                   toolCache, lastToolSync, timers, now>>
    /\ KeepHeaders
    /\ lastFetch' = "none"
    /\ UNCHANGED <<authHeaders, server, regVars>>

\* lines 202-206
ListOk(p) ==
    /\ NoneReturning
    /\ calls[p].pc = "l_list"
    /\ sess[calls[p].h] = "open"
    /\ lastToolSync' = now
    /\ \E listing \in server :
          /\ toolCache' = listing
          /\ calls' = [calls EXCEPT ![p] = Done(calls[p], SuccessTools(listing))]
    /\ sess' = Collect(sess, client, transport, calls')
    /\ UNCHANGED <<client, transport, isConnected, reconnectAttempts, timers, now>>
    /\ KeepHeaders
    /\ lastFetch' = "none"
    /\ UNCHANGED <<authHeaders, server, regVars>>

\* lines 207-215
ListFailDropsCache(p) ==
    /\ NoneReturning
    /\ calls[p].pc = "l_list"
    /\ \E e \in RemoteErrors :
          calls' = [calls EXCEPT ![p] = Done(calls[p], Caught(e))]
    /\ sess' = Collect(sess, client, transport, calls')
    /\ toolCache' = <<>>
    /\ UNCHANGED <<client, transport, isConnected, reconnectAttempts,
                   lastToolSync, timers, now>>
    /\ KeepHeaders
    /\ lastFetch' = "none"
    /\ UNCHANGED <<authHeaders, server, regVars>>
ListFail(p) ==
    /\ NoneReturning
    /\ calls[p].pc = "l_list"
    /\ \E e \in RemoteErrors :
          calls' = [calls EXCEPT ![p] = Done(calls[p], Caught(e))]
    /\ sess' = Collect(sess, client, transport, calls')
    /\ UNCHANGED <<client, transport, isConnected, reconnectAttempts,
                   toolCache, lastToolSync, timers, now>>
    /\ KeepHeaders
    /\ lastFetch' = "none"
    /\ UNCHANGED <<authHeaders, server, regVars>>

(***************************************************************************)
(* disconnect() (lines 109-126).                                           *)
(***************************************************************************)
\* lines 111-112, or 115-116 or 119 when there is nothing to close
StartDisconnect(p) ==
    LET rec == NewCall("disconnect")
    IN  /\ NoneReturning
        /\ calls[p].pc = "idle"
        /\ IF client # NoHandle
           THEN /\ calls' = [calls EXCEPT ![p] =
                      [rec EXCEPT !.pc = "d_client", !.h = client]]
                /\ UNCHANGED isConnected
           ELSE IF transport # NoHandle
           THEN /\ calls' = [calls EXCEPT ![p] =
                      [rec EXCEPT !.pc = "d_transport", !.h = transport]]
                /\ UNCHANGED isConnected
           ELSE /\ calls' = [calls EXCEPT ![p] = [rec EXCEPT !.pc = "done"]]
                /\ isConnected' = FALSE
        /\ UNCHANGED <<client, transport, reconnectAttempts, toolCache,
                       lastToolSync, sess, timers, now>>
        /\ KeepHeaders
        /\ lastFetch' = "none"
        /\ UNCHANGED <<authHeaders, server, regVars>>

\* lines 113-119: client.close() returned
DisconnectClientClosed(p) ==
    LET rec == calls[p]
    IN  /\ NoneReturning
        /\ rec.pc = "d_client"
        /\ client' = NoHandle
        /\ IF transport # NoHandle
           THEN /\ calls' = [calls EXCEPT ![p] =
                      [rec EXCEPT !.pc = "d_transport", !.h = transport]]
                /\ UNCHANGED isConnected
           ELSE /\ calls' = [calls EXCEPT ![p] =
                      [rec EXCEPT !.pc = "done", !.h = NoHandle]]
                /\ isConnected' = FALSE
        /\ sess' = Collect([sess EXCEPT ![rec.h] = "closed"],
                           client', transport, calls')
        /\ UNCHANGED <<transport, reconnectAttempts, toolCache, lastToolSync,
                       timers, now>>
        /\ KeepHeaders
        /\ lastFetch' = "none"
        /\ UNCHANGED <<authHeaders, server, regVars>>

\* lines 117-120: transport.close() returned
DisconnectTransportClosed(p) ==
    LET rec == calls[p]
    IN  /\ NoneReturning
        /\ rec.pc = "d_transport"
        /\ transport' = NoHandle
        /\ isConnected' = FALSE
        /\ calls' = [calls EXCEPT ![p] = [rec EXCEPT !.pc = "done", !.h = NoHandle]]
        /\ sess' = Collect([sess EXCEPT ![rec.h] = "closed"],
                           client, transport', calls')
        /\ UNCHANGED <<client, reconnectAttempts, toolCache, lastToolSync,
                       timers, now>>
        /\ KeepHeaders
        /\ lastFetch' = "none"
        /\ UNCHANGED <<authHeaders, server, regVars>>

\* lines 121-125: a close raised; the error is logged and nothing else is done
DisconnectCloseFail(p) ==
    LET rec == calls[p]
    IN  /\ NoneReturning
        /\ rec.pc \in {"d_client", "d_transport"}
        /\ calls' = [calls EXCEPT ![p] =
              [rec EXCEPT !.pc = "done", !.h = NoHandle,
                          !.res = Failure("close failed")]]
        /\ sess' = Collect(sess, client, transport, calls')
        /\ UNCHANGED <<client, transport, isConnected, reconnectAttempts,
                       toolCache, lastToolSync, timers, now>>
        /\ KeepHeaders
        /\ lastFetch' = "none"
        /\ UNCHANGED <<authHeaders, server, regVars>>

(***************************************************************************)
(* Environment: a call's result is consumed; the clock advances.           *)
(***************************************************************************)
Finish(p) ==
    /\ calls[p].pc = "done"
    /\ calls[p].caller = "api"
    /\ calls' = [calls EXCEPT ![p] = Idle]
    /\ UNCHANGED <<client, transport, isConnected, reconnectAttempts,
                   toolCache, lastToolSync, sess, timers, now>>
    /\ KeepHeaders
    /\ lastFetch' = "none"
    /\ UNCHANGED <<authHeaders, server, regVars>>

Tick ==
    /\ NoneReturning
    /\ now < StartupTime + MaxTicks * TickMs
    /\ now' = now + TickMs
    /\ UNCHANGED <<client, transport, isConnected, reconnectAttempts,
                   toolCache, lastToolSync, sess, timers, calls>>
    /\ KeepHeaders
    /\ lastFetch' = "none"
    /\ UNCHANGED <<authHeaders, server, regVars>>

(***************************************************************************)
(* The service after construction (lines 7-15).                            *)
(***************************************************************************)
Init ==
    /\ client = NoHandle
    /\ transport = NoHandle
    /\ isConnected = FALSE
    /\ reconnectAttempts = 0
    /\ toolCache = <<>>
    /\ lastToolSync = 0
    /\ sess = [h \in Handles |-> "free"]
    /\ timers = 0
    /\ now = StartupTime
    /\ calls = [p \in Procs |-> Idle]
    /\ authHeaders = NoAuthHeaders
    /\ hdrs = [h \in Handles |-> NoHeaders]
    /\ server = ServerListings
    /\ lastFetch = "none"
    /\ cachedTools = <<>>
    /\ syncInterval = FALSE
    /\ intervals = 0
    /\ stopped = FALSE
    /\ availableTools = <<>>
    /\ turns = [p \in Procs |-> IdleTurn]

Next ==
    \/ \E p \in Procs : StartConnect(p)
    \/ \E p \in Procs : TimerFire(p)
    \/ \E p \in Procs : ConnectOpenOk(p)
    \/ \E p \in Procs : ConnectOpenFail(p)
    \/ \E p \in Procs : RefreshOk(p)
    \/ \E p \in Procs : RefreshFail(p)
    \/ \E p \in Procs : StartExecute(p)
    \/ \E p \in Procs : StartListTools(p)
    \/ \E p \in Procs : CallOk(p)
    \/ \E p \in Procs : CallFail(p)
    \/ \E p \in Procs : ListOk(p)
    \/ \E p \in Procs : ListFail(p)
    \/ \E p \in Procs : StartDisconnect(p)
    \/ \E p \in Procs : DisconnectClientClosed(p)
    \/ \E p \in Procs : DisconnectTransportClosed(p)
    \/ \E p \in Procs : DisconnectCloseFail(p)
    \/ \E p \in Procs : Finish(p)
    \/ Tick

Spec == Init /\ [][Next]_vars

(***************************************************************************)
(* The sanitizer on its own: a connected service whose cache was refreshed *)
(* just now and holds any of SanCaches, serving executeService calls with  *)
(* every tool name and every argument map over Keys.                       *)
(***************************************************************************)
CatalogueDup ==
    << ToolDef("get_user_profile", NoSchema),
       ToolDef("list_whistles", PropsSchema(<<"keyword">>)),
       ToolDef("list_whistles", PropsSchema(<<AccessTokenKey>>)) >>
CatalogueNoProps ==
    << ToolDef("list_whistles", PropsSchema(<<>>)),
       ToolDef("search_businesses", NoSchema) >>
SanCaches == ServerListings \cup {CatalogueDup, CatalogueNoProps}
AllArgs == UNION {ArgsOf(S) : S \in SUBSET Keys}

StartExecuteAny(p) ==
    /\ p \in Requesters
    /\ \E serviceName \in ToolNames, params \in AllArgs :
          StartRequest(p, [NewCall("execute") EXCEPT
                              !.tool = serviceName, !.args = params])
    /\ UNCHANGED regVars

InitSan ==
    /\ client = 1
    /\ transport = 1
    /\ isConnected = TRUE
    /\ reconnectAttempts = 0
    /\ toolCache \in SanCaches
    /\ lastToolSync = StartupTime
    /\ sess = [h \in Handles |-> IF h = 1 THEN "open" ELSE "free"]
    /\ timers = 0
    /\ now = StartupTime
    /\ calls = [p \in Procs |-> Idle]
    /\ authHeaders = NoAuthHeaders
    /\ hdrs = [h \in Handles |-> IF h = 1 THEN TransportHeaders(NoAuthHeaders) ELSE NoHeaders]
    /\ server = ServerListings
    /\ lastFetch = "none"
    /\ cachedTools = <<>>
    /\ syncInterval = FALSE
    /\ intervals = 0
    /\ stopped = FALSE
    /\ availableTools = <<>>
    /\ turns = [p \in Procs |-> IdleTurn]

NextSan ==
    \/ \E p \in Procs : StartExecuteAny(p)
    \/ \E p \in Procs : CallOk(p)
    \/ \E p \in Procs : CallFail(p)
    \/ \E p \in Procs : Finish(p)

SpecSan == InitSan /\ [][NextSan]_vars

(***************************************************************************)
(* setAuth (lines 92-107), and the connection manager with setAuth calls   *)
(* between its steps: connects, retries and disconnects while the caller's *)
(* credentials change.                                                     *)
(***************************************************************************)
SetAuth ==
    /\ NoneReturning
    /\ \E a \in AuthInputs :
          authHeaders' = AuthHeadersFor(a.accessToken, a.userId)
    /\ UNCHANGED <<client, transport, isConnected, reconnectAttempts, toolCache,
                   lastToolSync, sess, timers, now, calls, hdrs, server, regVars>>
    /\ lastFetch' = "none"

InitAuth ==
    /\ client = NoHandle
    /\ transport = NoHandle
    /\ isConnected = FALSE
    /\ reconnectAttempts = 0
    /\ toolCache = <<>>
    /\ lastToolSync = 0
    /\ sess = [h \in Handles |-> "free"]
    /\ timers = 0
    /\ now = StartupTime
    /\ calls = [p \in Procs |-> Idle]
    /\ authHeaders = NoAuthHeaders
    /\ hdrs = [h \in Handles |-> NoHeaders]
    /\ server = {CatalogueA}
    /\ lastFetch = "none"
    /\ cachedTools = <<>>
    /\ syncInterval = FALSE
    /\ intervals = 0
    /\ stopped = FALSE
    /\ availableTools = <<>>
    /\ turns = [p \in Procs |-> IdleTurn]

NextAuth ==
    \/ SetAuth
    \/ \E p \in Procs : StartConnect(p)
    \/ \E p \in Procs : TimerFire(p)
    \/ \E p \in Procs : ConnectOpenOk(p)
    \/ \E p \in Procs : ConnectOpenFail(p)
    \/ \E p \in Procs : RefreshOk(p)
    \/ \E p \in Procs : RefreshFail(p)
    \/ \E p \in Procs : StartDisconnect(p)
    \/ \E p \in Procs : DisconnectClientClosed(p)
    \/ \E p \in Procs : DisconnectTransportClosed(p)
    \/ \E p \in Procs : DisconnectCloseFail(p)
    \/ \E p \in Procs : Finish(p)

SpecAuth == InitAuth /\ [][NextAuth]_vars

(***************************************************************************)
(* Tool registry synchronizer (ToolRegistryService, src/unnamed/part_000   *)
(* lines 32-129) on a connected service: startSync(), stopSync(), the      *)
(* interval's callback and syncTools(), which awaits the service's         *)
(* listTools() and then compares and publishes in one piece.               *)
(***************************************************************************)
\* Listings the endpoint answers the synchronizer with: a catalogue, the
\* same tools in another order, one with a property added, and one with a
\* tool added that declares no input schema.
SyncReordered ==
    << ToolDef("search_businesses", PropsSchema(<<"keyword">>)),
       ToolDef("list_whistles", PropsSchema(<<AccessTokenKey, "active_only">>)) >>
SyncWider ==
    << ToolDef("list_whistles", PropsSchema(<<AccessTokenKey, "active_only">>)),
       ToolDef("search_businesses", PropsSchema(<<"keyword", "active_only">>)) >>
SyncPlus ==
    << ToolDef("list_whistles", PropsSchema(<<AccessTokenKey, "active_only">>)),
       ToolDef("search_businesses", PropsSchema(<<"keyword">>)),
       ToolDef("get_user_profile", NoSchema) >>
SyncListings == {<<>>, CatalogueA, SyncReordered, SyncWider, SyncPlus}

\* JSON.stringify(tool.inputSchema): undefined for a missing schema,
\* otherwise text that spells the properties in their declaration order
Undefined == [defined |-> FALSE, text |-> <<FALSE, <<>> >>]
Stringify(schema) ==
    IF schema.present
    THEN [defined |-> TRUE, text |-> <<schema.hasProps, schema.props>>]
    ELSE Undefined
\* currentToolsMap.get(name): the entry of the last tool with that name
MapGet(cached, name) ==
    LET hits == {i \in DOMAIN cached : cached[i].name = name}
    IN  IF hits = {} THEN Undefined
        ELSE Stringify(cached[CHOOSE i \in hits : \A j \in hits : j <= i].inputSchema)
\* !currentSchema: undefined is falsy, a stringified schema never is
Falsy(v) == ~v.defined

\* hasToolsChanged (part_000 lines 99-119)
hasToolsChangedNamesOnly(cached, newTools) ==
    \/ Len(cached) # Len(newTools)
    \/ \E i \in DOMAIN newTools :
          \A j \in DOMAIN cached : cached[j].name # newTools[i].name
hasToolsChanged(cached, newTools) ==
    \/ Len(cached) # Len(newTools)
    \/ \E i \in DOMAIN newTools :
          LET currentSchema == MapGet(cached, newTools[i].name)
              newSchema == Stringify(newTools[i].inputSchema)
          IN  Falsy(currentSchema) \/ currentSchema # newSchema

\* OpenAIService.setAvailableTools (openaiService.ts lines 22-25)
SetAvailableTools(tools) == tools

StartSyncsInFlight ==
    Cardinality({p \in Procs : calls[p].caller = "startSync"})

\* startSync() up to its await (part_000 lines 44-48)
StartSync(p) ==
    /\ intervals + StartSyncsInFlight < MaxIntervals
    /\ stopped' = FALSE
    /\ StartRequest(p, [NewCall("listTools") EXCEPT !.caller = "startSync"])
    /\ UNCHANGED <<cachedTools, syncInterval, intervals, availableTools, turns>>

\* the interval's callback (part_000 lines 51-53)
IntervalFire(p) ==
    /\ intervals > 0
    /\ StartRequest(p, [NewCall("listTools") EXCEPT !.caller = "syncTools"])
    /\ UNCHANGED regVars

\* stopSync() without the test of line 57: a variant that clears a timer
\* whether or not one is stored
StopSyncUnguarded ==
    /\ NoneReturning
    /\ intervals' = IF intervals > 0 THEN intervals - 1 ELSE 0
    /\ syncInterval' = FALSE
    /\ stopped' = TRUE
    /\ UNCHANGED <<client, transport, isConnected, reconnectAttempts, toolCache,
                   lastToolSync, sess, timers, now, calls, authHeaders, hdrs,
                   server, cachedTools, availableTools, turns>>
    /\ lastFetch' = "none"

\* stopSync() (part_000 lines 56-62)
StopSync ==
    /\ NoneReturning
    /\ IF syncInterval
       THEN intervals' = intervals - 1 /\ syncInterval' = FALSE
       ELSE UNCHANGED <<intervals, syncInterval>>
    /\ stopped' = TRUE
    /\ UNCHANGED <<client, transport, isConnected, reconnectAttempts, toolCache,
                   lastToolSync, sess, timers, now, calls, authHeaders, hdrs,
                   server, cachedTools, availableTools, turns>>
    /\ lastFetch' = "none"

\* syncTools() after listTools() returned (part_000 lines 68-97), and
\* for startSync() the setInterval that follows (part_000 lines 51-53)
SyncReturn(p) ==
    LET rec == calls[p]
        toolsResponse == rec.res
        toolsChanged == /\ toolsResponse.success
                        /\ hasToolsChanged(cachedTools, toolsResponse.tools)
    IN  /\ rec.pc = "done"
        /\ rec.caller # "api"
        /\ cachedTools' = IF toolsChanged THEN toolsResponse.tools ELSE cachedTools
        /\ availableTools' = IF toolsChanged
                             THEN SetAvailableTools(toolsResponse.tools)
                             ELSE availableTools
        /\ IF rec.caller = "startSync"
           THEN syncInterval' = TRUE /\ intervals' = intervals + 1
           ELSE UNCHANGED <<syncInterval, intervals>>
        /\ calls' = [calls EXCEPT ![p] =
              [rec EXCEPT !.op = rec.caller, !.caller = "api",
                          !.published = toolsChanged]]
        /\ UNCHANGED <<client, transport, isConnected, reconnectAttempts,
                       toolCache, lastToolSync, sess, timers, now, authHeaders,
                       hdrs, server, stopped, turns>>
        /\ lastFetch' = "none"

\* startServer (src/unnamed/part_002 lines 149-156): the service is
\* connected when the synchronizer is started
InitSync ==
    /\ client = 1
    /\ transport = 1
    /\ isConnected = TRUE
    /\ reconnectAttempts = 0
    /\ server = SyncListings
    /\ toolCache \in server
    /\ lastToolSync = StartupTime
    /\ sess = [h \in Handles |-> IF h = 1 THEN "open" ELSE "free"]
    /\ timers = 0
    /\ now = StartupTime
    /\ calls = [p \in Procs |-> Idle]
    /\ authHeaders = NoAuthHeaders
    /\ hdrs = [h \in Handles |->
                 IF h = 1 THEN TransportHeaders(NoAuthHeaders) ELSE NoHeaders]
    /\ lastFetch = "none"
    /\ cachedTools = <<>>
    /\ syncInterval = FALSE
    /\ intervals = 0
    /\ stopped = FALSE
    /\ availableTools = <<>>
    /\ turns = [p \in Procs |-> IdleTurn]

NextSync ==
    \/ \E p \in Procs : StartSync(p)
    \/ \E p \in Procs : IntervalFire(p)
    \/ StopSync
    \/ \E p \in Procs : ListOk(p)
    \/ \E p \in Procs : ListFail(p)
    \/ \E p \in Procs : SyncReturn(p)
    \/ \E p \in Procs : Finish(p)

SpecSync == InitSync /\ [][NextSync]_vars

(***************************************************************************)
(* The assistant turn processor on its own: each behaviour runs one        *)
(* request through processMessage; the model and the executor are          *)
(* collaborators that answer with any reply and any MCPResponse.           *)
(***************************************************************************)
serviceVars == <<client, transport, isConnected, reconnectAttempts, toolCache,
                 lastToolSync, sess, timers, now, calls, hdrs, server,
                 cachedTools, syncInterval, intervals, stopped, availableTools>>

\* lines 17-35: up to the await of the model call
TurnBegin(p) ==
    LET rec == turns[p]
        authToken == StripBearer(rec.headers.authorization)
        userId == rec.headers.xUserId
    IN  /\ NoneReturning
        /\ rec.pc = "start"
        /\ authHeaders' = IF authToken # NoToken \/ userId # NoUser
                          THEN AuthHeadersFor(authToken, userId)
                          ELSE authHeaders
        /\ turns' = [turns EXCEPT ![p] = [rec EXCEPT !.pc = "model"]]
        /\ lastFetch' = "none"
        /\ UNCHANGED serviceVars

\* lines 35-58 and 193-200: the model answered
ModelReplied(p) ==
    /\ turns[p].pc = "model"
    /\ \E content \in Replies :
          turns' = [turns EXCEPT ![p] =
              AfterModel([turns[p] EXCEPT !.reply = content],
                         ModelResponse(content, turns[p].message))]
    /\ lastFetch' = "none"
    /\ UNCHANGED <<authHeaders, serviceVars>>

\* openaiService.ts lines 106-111: the model call raised
ModelFailed(p) ==
    /\ turns[p].pc = "model"
    /\ turns' = [turns EXCEPT ![p] =
          AfterModel([turns[p] EXCEPT !.modelFailed = TRUE], ModelFailure)]
    /\ lastFetch' = "none"
    /\ UNCHANGED <<authHeaders, serviceVars>>

\* lines 58-200: executeService returned
ExecutorReturned(p) ==
    /\ turns[p].pc = "exec"
    /\ \E result \in ExecutionResults :
          turns' = [turns EXCEPT ![p] = AfterExecute(turns[p], result)]
    /\ lastFetch' = "none"
    /\ UNCHANGED <<authHeaders, serviceVars>>

InitTurn ==
    /\ client = 1
    /\ transport = 1
    /\ isConnected = TRUE
    /\ reconnectAttempts = 0
    /\ server = {CatalogueA}
    /\ toolCache = CatalogueA
    /\ lastToolSync = StartupTime
    /\ sess = [h \in Handles |-> IF h = 1 THEN "open" ELSE "free"]
    /\ timers = 0
    /\ now = StartupTime
    /\ calls = [p \in Procs |-> Idle]
    /\ authHeaders = NoAuthHeaders
    /\ hdrs = [h \in Handles |->
                 IF h = 1 THEN TransportHeaders(NoAuthHeaders) ELSE NoHeaders]
    /\ lastFetch = "none"
    /\ cachedTools = CatalogueA
    /\ syncInterval = TRUE
    /\ intervals = 1
    /\ stopped = FALSE
    /\ availableTools = CatalogueA
    /\ \E request \in Requests :
          turns = [p \in Procs |->
                     IF p \in Requesters THEN NewTurn(request) ELSE IdleTurn]

NextTurn ==
    \/ \E p \in Requesters : TurnBegin(p)
    \/ \E p \in Requesters : ModelReplied(p)
    \/ \E p \in Requesters : ModelFailed(p)
    \/ \E p \in Requesters : ExecutorReturned(p)

SpecTurn == InitTurn /\ [][NextTurn]_vars

(***************************************************************************)
(* Two requests served at the same time: processMessage with the real      *)
(* executor.  Request p1 comes with a token and a user id, request p2 with *)
(* another token; the model answers each with a list_whistles directive.   *)
(***************************************************************************)
RequestA ==
    Request(<<Word("hello")>>, NoContext,
            [authorization |-> [scheme |-> "Bearer", cred |-> "t1"],
             xUserId |-> "u1"])
RequestB ==
    Request(<<Word("hello")>>, NoContext,
            [authorization |-> [scheme |-> "bearer", cred |-> "t2"],
             xUserId |-> NoUser])
RequestOf(p) == IF p = "p1" THEN RequestA ELSE RequestB
\* the headers setAuth stores for a request (lines 19-20, 30-31)
OwnAuthHeaders(request) ==
    AuthHeadersFor(StripBearer(request.headers.authorization),
                   request.headers.xUserId)

\* executeService(tool, mergedArgs) as a call of the service: the tool's
\* name and the keys of the arguments
ParamsOf(args) == [k \in MemberKeys(args.f) |-> "v1"]
ExecuteCall(tool, args) ==
    [NewCall("execute") EXCEPT !.tool = tool.s, !.args = ParamsOf(args)]
\* the MCPResponse of the service as the turn reads it: the remote tool
\* lists no whistles
ToolResultOf(res) ==
    IF res.success
    THEN ToolSuccess(Structured(JSObject(<<Member("whistles", JSArray(<<>>))>>)))
    ELSE ToolFailure(res.error)

\* part_001 lines 35-58: the model answered with a directive and the
\* handler runs into executeService, up to its first await
ModelRepliedExecute(p) ==
    LET after == AfterModel([turns[p] EXCEPT !.reply = ListWhistles],
                            ModelResponse(ListWhistles, turns[p].message))
    IN  /\ turns[p].pc = "model"
        /\ after.called
        /\ turns' = [turns EXCEPT ![p] = after]
        /\ StartRequest(p, ExecuteCall(after.tool, after.args))
        /\ UNCHANGED <<cachedTools, syncInterval, intervals, stopped,
                       availableTools>>

\* part_001 lines 58-200: executeService returned to the handler
ExecuteReturned(p) ==
    /\ turns[p].pc = "exec"
    /\ calls[p].pc = "done"
    /\ turns' = [turns EXCEPT ![p] =
          AfterExecute(turns[p], ToolResultOf(calls[p].res))]
    /\ calls' = [calls EXCEPT ![p] = Idle]
    /\ UNCHANGED <<client, transport, isConnected, reconnectAttempts,
                   toolCache, lastToolSync, sess, timers, now>>
    /\ KeepHeaders
    /\ lastFetch' = "none"
    /\ UNCHANGED <<authHeaders, server, cachedTools, syncInterval, intervals,
                   stopped, availableTools>>

\* a connect() started by a retry timer returned
TimerConnectReturned(p) ==
    /\ turns[p].pc # "exec"
    /\ Finish(p)

InitRace ==
    /\ client = NoHandle
    /\ transport = NoHandle
    /\ isConnected = FALSE
    /\ reconnectAttempts = 0
    /\ toolCache = <<>>
    /\ lastToolSync = 0
    /\ sess = [h \in Handles |-> "free"]
    /\ timers = 0
    /\ now = StartupTime
    /\ calls = [p \in Procs |-> Idle]
    /\ authHeaders = NoAuthHeaders
    /\ hdrs = [h \in Handles |-> NoHeaders]
    /\ server = {CatalogueA}
    /\ lastFetch = "none"
    /\ cachedTools = <<>>
    /\ syncInterval = FALSE
    /\ intervals = 0
    /\ stopped = FALSE
    /\ availableTools = <<>>
    /\ turns = [p \in Procs |-> NewTurn(RequestOf(p))]

NextRace ==
    \/ \E p \in Procs : TurnBegin(p)
    \/ \E p \in Procs : ModelRepliedExecute(p)
    \/ \E p \in Procs : ModelFailed(p)
    \/ \E p \in Procs : TimerFire(p)
    \/ \E p \in Procs : ConnectOpenOk(p)
    \/ \E p \in Procs : ConnectOpenFail(p)
    \/ \E p \in Procs : RefreshOk(p)
    \/ \E p \in Procs : RefreshFail(p)
    \/ \E p \in Procs : CallOk(p)
    \/ \E p \in Procs : CallFail(p)
    \/ \E p \in Procs : ExecuteReturned(p)
    \/ \E p \in Procs : TimerConnectReturned(p)

SpecRace == InitRace /\ [][NextRace]_vars

(***************************************************************************)
(* A request with credentials and an anonymous request: processMessage     *)
(* with the real executor, request p1 with a token and a user id, request  *)
(* p2 with neither.                                                        *)
(***************************************************************************)
RequestAnonymous == Request(<<Word("hello")>>, NoContext, AnonymousHeaders)

InitAnon ==
    /\ client = NoHandle
    /\ transport = NoHandle
    /\ isConnected = FALSE
    /\ reconnectAttempts = 0
    /\ toolCache = <<>>
    /\ lastToolSync = 0
    /\ sess = [h \in Handles |-> "free"]
    /\ timers = 0
    /\ now = StartupTime
    /\ calls = [p \in Procs |-> Idle]
    /\ authHeaders = NoAuthHeaders
    /\ hdrs = [h \in Handles |-> NoHeaders]
    /\ server = {CatalogueA}
    /\ lastFetch = "none"
    /\ cachedTools = <<>>
    /\ syncInterval = FALSE
    /\ intervals = 0
    /\ stopped = FALSE
    /\ availableTools = <<>>
    /\ turns = [p \in Procs |->
                  NewTurn(IF p = "p1" THEN RequestA ELSE RequestAnonymous)]

SpecAnon == InitAnon /\ [][NextRace]_vars
TypeOK ==
    /\ client \in Handles \cup {NoHandle}
    /\ transport \in Handles \cup {NoHandle}
    /\ isConnected \in BOOLEAN
    /\ reconnectAttempts \in Nat
    /\ toolCache \in SanCaches \cup SyncListings
    /\ now \in Times
    /\ \A h \in Handles : sess[h] \in {"free", "pending", "open", "closed"}
    /\ timers \in 0..MaxTimers
    /\ intervals \in 0..MaxIntervals
    /\ lastFetch \in {"none", "ok", "failed"}
    /\ syncInterval => intervals > 0
    /\ \A h \in Handles : sess[h] = "free" => hdrs[h] = NoHeaders

(***************************************************************************)
(* Steps the claims speak about.                                           *)
(***************************************************************************)
\* p's connect() left its await of client.connect(): the open failed, or
\* succeeded
OpenFailedStep(p) ==
    /\ calls[p].pc = "c_open"
    /\ calls'[p].pc # "c_open"
    /\ sess'[calls[p].h] # "open"
OpenSucceededStep(p) ==
    /\ calls[p].pc = "c_open"
    /\ sess[calls[p].h] = "pending"
    /\ sess'[calls[p].h] = "open"
\* p's executeService invoked client.callTool
CallIssuedStep(p) ==
    /\ calls[p].pc # "e_call"
    /\ calls'[p].pc = "e_call"
\* the property names a cached schema declares for a tool; none when the
\* cache has no entry for it or the entry declares no properties
DeclaredKeys(cache, serviceName) ==
    IF HasProperties(cache, serviceName) THEN Allowed(cache, serviceName) ELSE {}

(***************************************************************************)
(* C1.  The reconnect counter always lies in 0..5, under every             *)
(* interleaving of connect(), requests, retry timers and disconnect(); and *)
(* a connect() that fails while the counter is already 5 schedules no      *)
(* retry timer and leaves the counter at 5.                                *)
(***************************************************************************)
C1_CounterBounded ==
    /\ [](reconnectAttempts \in 0..5)
    /\ [][\A p \in Procs :
            OpenFailedStep(p) /\ reconnectAttempts = 5
            => /\ timers' = timers
               /\ calls'[p].sched = 0
               /\ reconnectAttempts' = 5]_vars

\* a connect() has just failed with the counter at the maximum and
\* scheduled nothing
C1_Witness ==
    \E p \in Procs :
        /\ calls[p].pc = "done" /\ calls[p].op = "connect"
        /\ ~calls[p].ret /\ calls[p].sched = 0
        /\ reconnectAttempts = 5 /\ timers = 0

(***************************************************************************)
(* C2.  connect() called while the manager is Connected returns true at    *)
(* once and changes nothing: no new transport or client, the stored        *)
(* handles, the counter, the cache and the state stay as they were.        *)
(***************************************************************************)
C2_ConnectWhenConnectedIsNoOp ==
    [][\A p \in Procs :
          /\ calls[p].pc = "idle"
          /\ calls'[p].op = "connect"
          /\ AlreadyConnected(isConnected, client)
          => /\ calls'[p].pc = "done" /\ calls'[p].ret
             /\ UNCHANGED <<client, transport, sess, isConnected,
                            reconnectAttempts, toolCache>>]_vars

(***************************************************************************)
(* C3.  Whenever disconnect() returns, also after a close that raised,     *)
(* isConnected is false.                                                   *)
(***************************************************************************)
C3_DisconnectEndsDisconnected ==
    [][\A p \in Procs :
          /\ calls[p].pc # "done"
          /\ calls'[p].pc = "done" /\ calls'[p].op = "disconnect"
          => ~isConnected']_vars

C8_UnknownToolPassesThrough ==
    \A p \in Procs :
        /\ calls[p].pc = "e_call"
        /\ \A i \in DOMAIN toolCache : toolCache[i].name # calls[p].tool
        => calls[p].sent = calls[p].args /\ calls[p].dropped = {}

\* a call with arguments is in flight for a tool the non-empty cache does
\* not list
C8_Witness ==
    \E p \in Procs :
        /\ calls[p].pc = "e_call"
        /\ toolCache # <<>>
        /\ \A i \in DOMAIN toolCache : toolCache[i].name # calls[p].tool
        /\ Cardinality(DOMAIN calls[p].args) = 3
        /\ calls[p].sent = calls[p].args

(***************************************************************************)
(* C9.  When the cached schema of the tool declares properties, the        *)
(* retained keys and the dropped keys partition the caller's keys, each    *)
(* retained key keeps its value, and no key is added: access_token is      *)
(* never injected.                                                         *)
(***************************************************************************)
C9_RetainedAndDroppedPartition ==
    \A p \in Procs :
        calls[p].pc = "e_call" /\ HasProperties(toolCache, calls[p].tool)
        => /\ DOMAIN calls[p].sent \cup calls[p].dropped = DOMAIN calls[p].args
           /\ DOMAIN calls[p].sent \cap calls[p].dropped = {}
           /\ \A k \in DOMAIN calls[p].sent : calls[p].sent[k] = calls[p].args[k]
           /\ "access_token" \notin DOMAIN calls[p].args
              => "access_token" \notin DOMAIN calls[p].sent

\* the schema declares access_token, the caller did not supply it, and of
\* the caller's keys one was retained and one dropped
C9_Witness ==
    \E p \in Procs :
        /\ calls[p].pc = "e_call"
        /\ HasProperties(toolCache, calls[p].tool)
        /\ "access_token" \in Allowed(toolCache, calls[p].tool)
        /\ "access_token" \notin DOMAIN calls[p].args
        /\ DOMAIN calls[p].sent # {}
        /\ calls[p].dropped # {}

(***************************************************************************)
(* C10.  An executeService call whose ensureConnected() had to connect     *)
(* and whose connection attempt failed returns                             *)
(* {success: false, error: "Not connected to MCP server"} in that step,    *)
(* without having invoked client.callTool.                                 *)
(***************************************************************************)
C10_NotConnectedWithoutRemoteCall ==
    [][\A p \in Procs :
          OpenFailedStep(p) /\ calls[p].op = "execute"
          => /\ calls'[p].pc = "done"
             /\ ~calls'[p].res.success
             /\ calls'[p].res.error = "Not connected to MCP server"
             /\ ~calls'[p].called]_vars

\* an executeService call has just returned Not connected after its
\* connection attempt failed with the retries exhausted
C10_Witness ==
    \E p \in Procs :
        /\ calls[p].pc = "done" /\ calls[p].op = "execute"
        /\ calls[p].res.error = "Not connected to MCP server"
        /\ ~calls[p].called /\ calls[p].sched = 0
        /\ ~isConnected /\ reconnectAttempts = 5

(***************************************************************************)
(* Steps and notions the claims on the executor, the cache and the         *)
(* synchronizer speak about.                                               *)
(***************************************************************************)
\* p's call returned in this step
ReturnedStep(p) == calls[p].pc # "done" /\ calls'[p].pc = "done"
\* p stopped awaiting the tools/list it issued inside refreshTools
RefreshEndedStep(p) ==
    /\ calls[p].pc \in {"c_refresh", "e_refresh"}
    /\ calls'[p] # calls[p]
\* p's executeService got past its connection guard and ran
\* refreshTools(false) in this step
RefreshFalseStep(p) ==
    /\ calls'[p].op = "execute"
    /\ calls[p].pc \in {"idle", "c_open", "c_refresh"}
    /\ \/ calls'[p].pc \in {"e_refresh", "e_call"}
       \/ calls'[p].pc = "done" /\ calls'[p].res.error = NullParamsError
\* a connect() was begun in this step
ConnectBegunStep(p) == calls[p].pc = "idle" /\ calls'[p].pc = "c_open"
\* the messages executeService's catch block can put into a result
CaughtMessages ==
    {ErrorMessage(e) : e \in RemoteErrors} \cup {NullClientError, NullParamsError}
\* what a listing says, whatever the order of its entries: the tool names
\* and every tool's input schema
Published(listing) == {<<listing[i].name, listing[i].inputSchema>> : i \in DOMAIN listing}
SameListing(a, b) == Len(a) = Len(b) /\ Published(a) = Published(b)
\* p's sync cycle ran syncTools' comparison on a fetched listing in this step
CycleComparedStep(p) ==
    /\ calls[p].pc = "done" /\ calls[p].caller # "api"
    /\ calls[p].res.success
    /\ calls'[p].caller = "api"
\* a sync cycle was started by an interval timer in this step
TimerCycleStartedStep(p) ==
    /\ calls[p].pc = "idle"
    /\ calls'[p].caller = "syncTools"

(***************************************************************************)
(* C11.  Every executeService call returns an MCPResponse and never        *)
(* raises: whatever the refresh, the sanitization or the remote call       *)
(* raised, also a null client left by a concurrent disconnect(), comes     *)
(* back as {success: false, error: message}; and a result with success =   *)
(* true is returned only in the step in which the remote call returned     *)
(* without error on an open session.                                       *)
(***************************************************************************)
C11_ExecuteNeverRaises ==
    /\ [](\A p \in Procs :
            calls[p].pc = "done" /\ calls[p].op = "execute"
            => /\ ~calls[p].res.thrown
               /\ ~calls[p].res.success
                  => calls[p].res.error \in CaughtMessages \cup {NotConnectedError})
    /\ [][\A p \in Procs :
            ReturnedStep(p) /\ calls'[p].op = "execute" /\ calls'[p].res.success
            => /\ calls[p].pc = "e_call"
               /\ calls[p].called
               /\ sess[calls[p].h] = "open"
               /\ calls'[p].res.data = "result"]_vars

\* an executeService call came back with the null-client error as a
\* failure result, the client having been set to null while it awaited
C11_Witness ==
    \E p \in Procs :
        /\ calls[p].pc = "done" /\ calls[p].op = "execute"
        /\ ~calls[p].res.success /\ ~calls[p].res.thrown
        /\ calls[p].res.error = NullClientError
        /\ client = NoHandle

(***************************************************************************)
(* C12.  Every result with success = false that executeService or          *)
(* listTools returns carries a non-empty error string, whatever the remote *)
(* call raised, also an Error whose message is the empty string.           *)
(***************************************************************************)
C12_FailureHasErrorText ==
    \A p \in Procs :
        /\ calls[p].pc = "done" /\ calls[p].op \in {"execute", "listTools"}
        /\ ~calls[p].res.success
        => calls[p].res.error # ""

(***************************************************************************)
(* C13.  No log record executeService writes, on the way to the remote     *)
(* call or in its catch block, carries the caller's argument map: the      *)
(* records hold the tool name and key names only.                          *)
(***************************************************************************)
C13_LogsCarryNoArgumentValue ==
    \A p \in Procs :
        calls[p].op = "execute"
        => calls[p].log.params = NoArgs

(***************************************************************************)
(* C14.  setAuth changes this.authHeaders and nothing else: the state, the *)
(* handles, the counter and the cache stay, and so do the headers of every *)
(* transport that exists; a connect() that builds a transport gives it the *)
(* fixed headers plus the mapping stored at that moment.                   *)
(***************************************************************************)
C14_SetAuthOnlyStoresHeaders ==
    /\ [][authHeaders' # authHeaders
          => /\ authHeaders' \in {AuthHeadersFor(a.accessToken, a.userId) :
                                    a \in AuthInputs}
             /\ UNCHANGED <<client, transport, isConnected, reconnectAttempts,
                            toolCache, lastToolSync, sess, hdrs>>]_vars
    /\ [][\A h \in Handles :
            /\ sess[h] \in {"pending", "open"}
            /\ sess'[h] \in {"pending", "open"}
            => hdrs'[h] = hdrs[h]]_vars
    /\ [][\A p \in Procs :
            ConnectBegunStep(p)
            => /\ hdrs'[calls'[p].h].Authorization = authHeaders.Authorization
               /\ hdrs'[calls'[p].h].XUserId = authHeaders.XUserId
               /\ hdrs'[calls'[p].h].ContentType = "application/json"]_vars

\* a session is open with the headers of the first credentials while the
\* stored mapping already holds the second ones
C14_Witness ==
    \E h \in Handles :
        /\ sess[h] = "open" /\ client = h /\ isConnected
        /\ hdrs[h].Authorization = [scheme |-> "Bearer", cred |-> "t1"]
        /\ hdrs[h].XUserId = "u1"
        /\ authHeaders.Authorization = [scheme |-> "bearer", cred |-> "t2"]
        /\ authHeaders.XUserId = NoUser

(***************************************************************************)
(* C15.  A tools/list fetch that fails, inside refreshTools or inside      *)
(* listTools, leaves the cache and the recorded fetch time as they were;   *)
(* refreshTools hands no error to its caller: connect() still returns      *)
(* true and executeService goes on to the remote call.                     *)
(***************************************************************************)
C15_FailedFetchKeepsCache ==
    [][\A p \in Procs :
          /\ RefreshEndedStep(p) /\ lastFetch' = "failed"
             => /\ toolCache' = toolCache /\ lastToolSync' = lastToolSync
                /\ ~calls'[p].res.thrown
                /\ calls'[p].op = "connect"
                   => calls'[p].pc = "done" /\ calls'[p].ret
                /\ calls[p].pc = "e_refresh" /\ client # NoHandle
                      /\ calls[p].args # NullParams
                   => calls'[p].pc = "e_call"
          /\ /\ calls[p].pc = "l_list"
             /\ ReturnedStep(p) /\ ~calls'[p].res.success
             => toolCache' = toolCache /\ lastToolSync' = lastToolSync]_vars

\* an executeService call is at its remote call after its refresh failed,
\* with the cache of an earlier fetch still in place
C15_Witness ==
    \E p \in Procs :
        /\ calls[p].pc = "e_call" /\ lastFetch = "failed"
        /\ toolCache # <<>> /\ lastToolSync # 0

(***************************************************************************)
(* C16.  refreshTools(false) fetches nothing and leaves the cache and the  *)
(* timestamp alone when the cache is younger than 300000 ms or when the    *)
(* manager is not connected; refreshTools(true) with the manager connected *)
(* always fetches, and a fetch that succeeds makes the fetched listing the *)
(* cache and records the time of the refresh.                              *)
(***************************************************************************)
C16_RefreshByConnectionState ==
    [][\A p \in Procs :
          /\ /\ RefreshFalseStep(p)
             /\ now - lastToolSync' < 300000 \/ ~isConnected'
             => /\ calls'[p].pc # "e_refresh"
                /\ calls[p].pc = "idle"
                   => toolCache' = toolCache /\ lastToolSync' = lastToolSync
          /\ OpenSucceededStep(p) /\ isConnected'
             => calls'[p].pc = "c_refresh"
          /\ RefreshEndedStep(p) /\ lastFetch' = "ok"
             => toolCache' \in server /\ lastToolSync' = calls[p].t0]_vars

(***************************************************************************)
(* C17.  Once the retries are exhausted (counter at 5, no retry pending or *)
(* running) nothing connects and the manager stays Disconnected until a    *)
(* connect() is called; that call restarts the counter, so that its        *)
(* failure schedules a retry again.                                        *)
(***************************************************************************)
C17_ExplicitCallRestartsRetries ==
    /\ [][Exhausted /\ ~(\E p \in Procs : ConnectBegunStep(p)) => Exhausted']_vars
    /\ [][\A p \in Procs :
            OpenFailedStep(p) /\ calls[p].exhausted
            => timers' = timers + 1 /\ calls'[p].sched > 0]_vars

(***************************************************************************)
(* C18.  A sync cycle that fetched a listing with the same tool names and, *)
(* per name, the same input schema as the listing cached by the registry,  *)
(* in whatever order and also for tools without input schema, does not     *)
(* call setAvailableTools and leaves cachedTools as it is.                 *)
(***************************************************************************)
C18_EquivalentListingNotRepublished ==
    [][\A p \in Procs :
          CycleComparedStep(p) /\ SameListing(cachedTools, calls[p].res.tools)
          => /\ ~calls'[p].published
             /\ cachedTools' = cachedTools
             /\ availableTools' = availableTools]_vars

(***************************************************************************)
(* C19.  A sync cycle that fetched a listing which differs from the cached *)
(* one by a tool added, a tool removed or a tool's input schema changed    *)
(* makes the fetched listing the registry's cache and calls                *)
(* setAvailableTools with it.                                              *)
(***************************************************************************)
C19_ChangedListingRepublished ==
    [][\A p \in Procs :
          CycleComparedStep(p) /\ ~SameListing(cachedTools, calls[p].res.tools)
          => /\ calls'[p].published
             /\ cachedTools' = calls[p].res.tools
             /\ availableTools' = calls[p].res.tools]_vars

\* a cycle has just republished a listing in which one tool has one
\* property more than in the listing published before
C19_Witness ==
    \E p \in Procs :
        /\ calls[p].pc = "done" /\ calls[p].op = "syncTools" /\ calls[p].published
        /\ calls[p].res.tools = SyncWider
        /\ cachedTools = SyncWider /\ availableTools = SyncWider

(***************************************************************************)
(* C20.  After stopSync() has returned and until startSync() is called     *)
(* again, no interval timer starts a sync cycle and no listing is          *)
(* published, whatever startSync()/stopSync() calls came before and        *)
(* whatever cycle was in flight.                                           *)
(***************************************************************************)
C20_NoCycleAfterStop ==
    [][stopped /\ stopped'
       => \A p \in Procs :
             /\ ~TimerCycleStartedStep(p)
             /\ ~(calls'[p].published /\ ~calls[p].published)]_vars

\* a step of stopSync(): the only operation of the synchronizer that
\* neither starts nor advances a call
StopSyncStep == stopped' /\ calls' = calls

\* what stopSync() can touch of the program: the registry's fields, the
\* live interval timers and the service behind it
RegistryState ==
    <<cachedTools, syncInterval, intervals, availableTools, client, transport,
      isConnected, reconnectAttempts, toolCache, lastToolSync, sess, timers>>

(***************************************************************************)
(* C21.  stopSync() is idempotent and safe in every state: called when no  *)
(* interval is stored (never started, or already stopped) it changes       *)
(* nothing of the registry, the timers or the service, and it leaves no    *)
(* interval stored, so that a second call right after a first one finds    *)
(* nothing to do and leaves the state of the first.                        *)
(***************************************************************************)
C21_StopSyncIdempotent ==
    [][StopSyncStep
       => /\ ~syncInterval'
          /\ cachedTools' = cachedTools /\ availableTools' = availableTools
          /\ (~syncInterval => RegistryState' = RegistryState)]_vars

\* stopSync() has returned with no interval stored while an interval of an
\* earlier startSync() is still live: a further stopSync() must not touch it
C21_Witness ==
    /\ stopped /\ ~syncInterval /\ intervals = 1
    /\ \A p \in Procs : calls[p].pc = "idle"

(***************************************************************************)
(* Claims about the assistant turn processor.                              *)
(***************************************************************************)
\* the text parseAIResponse was given in p's turn
ResponseText(p) ==
    IF turns[p].reply = <<>> THEN DefaultReplyText ELSE turns[p].reply
\* p's turn holds the response as parseAIResponse returned it: the model
\* answered and no formatting rule has touched the text yet
ParsedResponse(p) ==
    /\ turns[p].pc \in {"exec", "done"}
    /\ ~turns[p].modelFailed /\ ~turns[p].toolExecuted
HasToolAction(p) ==
    \E i \in DOMAIN turns[p].ai.actions : turns[p].ai.actions[i].type = "mcp_tool"
HasAction(p, type) ==
    \E i \in DOMAIN turns[p].ai.actions : turns[p].ai.actions[i].type = type
\* the candidate parses as a JSON object whose tool is a string and whose
\* args is an object
IsToolCallTyped(candidate) ==
    LET parsed == JSONParse(candidate) IN
    /\ parsed.ok
    /\ parsed.val.ty = "object"
    /\ Get(parsed.val, "tool").ty = "string"
    /\ Get(parsed.val, "args").ty = "object"
\* the first candidate, fenced block before whole reply, that is a JSON
\* object with a string tool and an object args; 0 if there is none
TypedDirective(text) ==
    LET typed == {i \in DOMAIN JsonCandidates(text) :
                     IsToolCallTyped(JsonCandidates(text)[i])}
    IN  IF typed = {} THEN 0 ELSE Min(typed)

(***************************************************************************)
(* C22.  A model reply is recognised as a tool-call directive exactly when *)
(* the first fenced code block, or else the whole trimmed reply, parses as *)
(* a JSON object whose tool field is a string and whose args field is an   *)
(* object; the first such candidate is the directive carried by the        *)
(* mcp_tool action.  An object whose tool is not a string or whose args is *)
(* not an object is not a directive.                                       *)
(***************************************************************************)
C22_DirectiveIffTyped ==
    \A p \in Procs :
        ParsedResponse(p)
        => LET text == ResponseText(p) IN
           /\ HasToolAction(p) <=> TypedDirective(text) # 0
           /\ HasToolAction(p)
              => turns[p].ai.actions[ToolAction(turns[p].ai)].data
                 = JSONParse(JsonCandidates(text)[TypedDirective(text)]).val

(***************************************************************************)
(* C23.  When the parser found a tool call, the parsed response has empty  *)
(* text, exactly one action, which is of type mcp_tool and carries the     *)
(* parsed candidate, and no suggestions, whatever keywords the reply and   *)
(* the user message contain.                                               *)
(***************************************************************************)
C23_ToolCallResponseShape ==
    \A p \in Procs :
        ParsedResponse(p) /\ FoundCandidate(ResponseText(p)) # 0
        => LET text == ResponseText(p) IN
           /\ turns[p].ai.text = <<>>
           /\ Len(turns[p].ai.actions) = 1
           /\ turns[p].ai.actions[1].type = "mcp_tool"
           /\ turns[p].ai.actions[1].data
              = JSONParse(JsonCandidates(text)[FoundCandidate(text)]).val
           /\ turns[p].ai.suggestions = <<>>
           /\ ~HasAction(p, "booking_intent") /\ ~HasAction(p, "location_request")

\* a tool call was found in a reply that mentions a booking, for a message
\* that mentions a price
C23_Witness ==
    \E p \in Procs :
        /\ turns[p].pc = "exec"
        /\ Includes(turns[p].reply, "book") /\ Includes(turns[p].message, "price")
        /\ turns[p].ai.text = <<>>

\* every candidate of the reply fails to parse, and there is one
AllCandidatesMalformed(text) ==
    /\ JsonCandidates(text) # <<>>
    /\ \A i \in DOMAIN JsonCandidates(text) : ~JSONParse(JsonCandidates(text)[i]).ok

(***************************************************************************)
(* C24.  A model reply whose JSON candidates all fail to parse is treated  *)
(* as no tool call: no error leaves the handler, the response text is the  *)
(* reply unchanged, no mcp_tool action is recorded, and the turn completes *)
(* with toolExecuted = false, no toolResult and the executor not invoked.  *)
(***************************************************************************)
C24_MalformedIsNoToolCall ==
    \A p \in Procs :
        /\ turns[p].pc \in {"exec", "done"} /\ ~turns[p].modelFailed
        /\ AllCandidatesMalformed(ResponseText(p))
        => /\ turns[p].pc = "done" /\ turns[p].status = "sent"
           /\ turns[p].ai.text = ResponseText(p)
           /\ ~HasToolAction(p)
           /\ ~turns[p].called /\ ~turns[p].toolExecuted
           /\ ~turns[p].toolResult.defined

\* a turn has completed on a reply whose fenced block is cut off JSON
C24_Witness ==
    \E p \in Procs :
        /\ turns[p].pc = "done" /\ turns[p].status = "sent"
        /\ Fenced(turns[p].reply).matched
        /\ AllCandidatesMalformed(turns[p].reply)

(***************************************************************************)
(* C25.  Every reply in which the parser finds no tool call yields a       *)
(* plain-text response: its text is the reply, it has no mcp_tool action,  *)
(* and its suggestions are the pricing ones if the user message contains   *)
(* "price", else the booking ones if it contains "book", else the default  *)
(* ones, so they are never empty and depend on the message only; a         *)
(* booking_intent (location_request) action is there exactly when the      *)
(* reply or the message contains "book" ("location").                      *)
(***************************************************************************)
C25_PlainTextResponse ==
    \A p \in Procs :
        ParsedResponse(p) /\ FoundCandidate(ResponseText(p)) = 0
        => LET text == ResponseText(p)
               message == turns[p].message
           IN  /\ turns[p].ai.text = text
               /\ ~HasToolAction(p)
               /\ turns[p].ai.suggestions # <<>>
               /\ turns[p].ai.suggestions =
                     IF Includes(message, "price")
                     THEN <<"Get quotes", "Compare providers">>
                     ELSE IF Includes(message, "book")
                     THEN <<"Choose service type", "Set pickup location">>
                     ELSE <<"Book a ride", "Find services", "See offers">>
               /\ HasAction(p, "booking_intent")
                  <=> Includes(text, "book") \/ Includes(message, "book")
               /\ HasAction(p, "location_request")
                  <=> Includes(text, "location") \/ Includes(message, "location")

\* a plain reply that mentions a price to a message that asks to book: the
\* suggestions are the booking ones
C25_Witness ==
    \E p \in Procs :
        /\ turns[p].pc = "done" /\ turns[p].status = "sent"
        /\ Includes(turns[p].reply, "price") /\ ~Includes(turns[p].message, "price")
        /\ Includes(turns[p].message, "book")
        /\ turns[p].ai.suggestions = BookingSuggestions

(***************************************************************************)
(* C26.  When the tool execution of a turn failed with a non-empty error   *)
(* string e, the final text is the failure message that embeds e, whatever *)
(* the tool, toolExecuted is true and toolResult is the failed result.     *)
(***************************************************************************)
C26_FailureText ==
    \A p \in Procs :
        /\ turns[p].pc = "done" /\ turns[p].toolResult.defined
        /\ ~turns[p].toolResult.success /\ turns[p].toolResult.error # ""
        => /\ turns[p].status = "sent"
           /\ turns[p].ai.text
              = <<Word("Tool call failed: "), Word(turns[p].toolResult.error)>>
           /\ turns[p].toolExecuted
           /\ turns[p].called

\* list_whistles, which has a formatting rule of its own, failed on a timeout
C26_Witness ==
    \E p \in Procs :
        /\ turns[p].pc = "done" /\ turns[p].status = "sent"
        /\ turns[p].tool = JSString("list_whistles")
        /\ turns[p].toolResult.defined /\ turns[p].toolResult.error = "timeout"

\* the lines of a text that begin with a number and ". "
NumberedLines(text) ==
    LET lines == Split(text, NL) IN
    SelectSeq(lines, LAMBDA l : Len(l) >= 2 /\ l[1].k = "num" /\ l[2] = Word(". "))

(***************************************************************************)
(* C27.  For a successful list_whistles execution whose structured payload *)
(* holds a whistles list of length n: if n = 0 the final text is exactly   *)
(* "No whistles found."; if n > 0 the text contains exactly n numbered     *)
(* lines, numbered 1..n in the order of the payload.                       *)
(***************************************************************************)
C27_NumberedWhistles ==
    \A p \in Procs :
        LET whistles == Get(StructuredResult(turns[p].toolResult.data), "whistles")
            n == Len(whistles.f)
        IN  /\ turns[p].pc = "done" /\ turns[p].toolResult.success
            /\ turns[p].tool = JSString("list_whistles")
            /\ whistles.ty = "array"
            => /\ turns[p].status = "sent"
               /\ n = 0 => turns[p].ai.text = <<Word("No whistles found.")>>
               /\ n > 0 =>
                    /\ Len(NumberedLines(turns[p].ai.text)) = n
                    /\ \A i \in 1..n :
                          NumberedLines(turns[p].ai.text)[i][1] = Num(ToString(i))

\* the payload the turn is to format: the primary structured field if it
\* is usable, else the first content item's text parsed as JSON, else none
ClaimedPayload(data) ==
    IF Truthy(PrimaryResult(data)) THEN PrimaryResult(data)
    ELSE IF HasTextContent(data) /\ JSONParse(NestedText(data)).ok
    THEN JSONParse(NestedText(data)).val
    ELSE JSUndefined

(***************************************************************************)
(* C29.  On a successful execution the structured payload is the result's  *)
(* primary structured field if usable, else the first content item's text  *)
(* parsed as JSON, and the rule of the tool is applied to it; if neither   *)
(* yields a payload the final text is the result's top-level message if    *)
(* there is one, else the generic executed-successfully sentence.  A       *)
(* nested text that fails to parse raises nothing and falls through.       *)
(***************************************************************************)
C29_PayloadExtraction ==
    \A p \in Procs :
        turns[p].pc = "done" /\ turns[p].toolResult.success
        => LET data == turns[p].toolResult.data
               payload == ClaimedPayload(data)
               rule == FormatStructured(turns[p].tool, payload, turns[p].message)
           IN  /\ Truthy(payload) /\ rule.kind = "set" => turns[p].ai.text = rule.text
               /\ Truthy(payload) /\ rule.kind = "leave" => turns[p].ai.text = <<>>
               /\ ~Truthy(payload) /\ Truthy(Get(data, "message"))
                  => turns[p].ai.text = ToText(Get(data, "message"))
               /\ ~Truthy(payload) /\ ~Truthy(Get(data, "message"))
                  => turns[p].ai.text = GenericSuccessText
               /\ ~Truthy(PrimaryResult(data)) /\ HasTextContent(data)
                  /\ ~JSONParse(NestedText(data)).ok
                  => turns[p].status = "sent"

\* the result has no structured field, its text does not parse, and the
\* final text is its top-level message
C29_Witness ==
    \E p \in Procs :
        LET data == turns[p].toolResult.data IN
        /\ turns[p].pc = "done" /\ turns[p].toolResult.success
        /\ ~Truthy(PrimaryResult(data)) /\ HasTextContent(data)
        /\ ~JSONParse(NestedText(data)).ok
        /\ turns[p].ai.text = <<Word("Created")>>


(***************************************************************************)
(* C30.  The args passed to the executor are the directive's args merged   *)
(* with the coordinates of context.userLocation: if the directive has a    *)
(* numeric latitude the args are passed as they are; otherwise, if the     *)
(* location splits into two values that both parse as numbers, latitude    *)
(* and longitude are set to them; if either part fails to parse, or there  *)
(* is no location, neither field is changed.  No other key is added,       *)
(* removed or changed.                                                     *)
(***************************************************************************)
C30_MergedCoordinates ==
    \A p \in Procs :
        turns[p].called
        => LET args == turns[p].directiveArgs
               own == JSObject(OwnMembers(args))
               passed == turns[p].args
               location == turns[p].context.userLocation
               pieces == Split(location, Punct(","))
               numeric == Get(own, "latitude").ty = "number"
               noLocation == ~turns[p].context.defined \/ location = <<>>
           IN  /\ numeric => passed = args
               /\ ~numeric /\ ~noLocation /\ Len(pieces) = 2
                  /\ ~IsNaN(ToNumber(pieces[1])) /\ ~IsNaN(ToNumber(pieces[2]))
                  => /\ Get(passed, "latitude") = ToNumber(pieces[1])
                     /\ Get(passed, "longitude") = ToNumber(pieces[2])
               /\ \/ noLocation
                  \/ Len(pieces) < 2
                  \/ IsNaN(ToNumber(pieces[1])) \/ IsNaN(ToNumber(pieces[2]))
                  => /\ Get(passed, "latitude") = Get(own, "latitude")
                     /\ Get(passed, "longitude") = Get(own, "longitude")
               /\ \A k \in (MemberKeys(passed.f) \cup MemberKeys(own.f))
                              \ {"latitude", "longitude"} :
                     Get(passed, k) = Get(own, k)

\* the directive's latitude was a text: both coordinates were set from the
\* location, the longitude the directive gave was replaced
C30_Witness ==
    \E p \in Procs :
        /\ turns[p].called
        /\ Get(turns[p].directiveArgs, "latitude") = JSString("7")
        /\ Get(turns[p].directiveArgs, "longitude") = JSNumber(2)
        /\ Get(turns[p].args, "latitude") = JSNumber(10)
        /\ Get(turns[p].args, "longitude") = JSNumber(76)

\* p's handler has run from the model's answer into executeService
ExecuteBegunStep(p) == turns[p].pc = "model" /\ turns'[p].pc = "exec"

(***************************************************************************)
(* C28.  A connection established by one request is reused by another: a   *)
(* request whose executeService finds the service connected builds no      *)
(* transport and issues its remote request (the tool call, or the listing  *)
(* of a due refresh before it) in the same step over the stored session,   *)
(* with the headers that session was built with, whatever its own setAuth  *)
(* stored.  The witness is the interleaving of the claim: the call of       *)
(* request p2 goes over a session that carries the headers of request      *)
(* p1's setAuth and not its own.                                           *)
(***************************************************************************)
C28_ConnectedRequestReusesSession ==
    [][\A p \in Procs :
          ExecuteBegunStep(p) /\ isConnected /\ client # NoHandle
          => /\ calls'[p].pc \in {"e_call", "e_refresh"}
             /\ calls'[p].h = client
             /\ client' = client /\ transport' = transport
             /\ sess' = sess /\ hdrs' = hdrs]_vars

\* request p2 stored its own headers with setAuth, and its remote call is
\* in flight over a session built with the headers of request p1
C28_Witness ==
    /\ turns["p2"].pc = "exec"
    /\ calls["p2"].pc = "e_call" /\ calls["p2"].called
    /\ authHeaders = OwnAuthHeaders(RequestB)
    /\ hdrs[calls["p2"].h] = TransportHeaders(OwnAuthHeaders(RequestA))
    /\ hdrs[calls["p2"].h] # TransportHeaders(OwnAuthHeaders(RequestB))

\* the positions of a handler in the order its steps are taken
TurnOrder(pc) ==
    CASE pc = "idle" -> 0 [] pc = "start" -> 1 [] pc = "model" -> 2
      [] pc = "exec" -> 3 [] pc = "done" -> 4

(***************************************************************************)
(* C31.  The steps of a turn run in the order setAuth, model call, parse,  *)
(* execute, format: the stored headers change only in the step that ends   *)
(* at the model call, the reply is parsed only in the step after it, the   *)
(* executor is invoked only in that step, and the text is rewritten only   *)
(* in the step in which the executor returned.  The executor is invoked at *)
(* most once; when the handler has finished, toolExecuted is true exactly  *)
(* when the executor was invoked and toolResult is present exactly when    *)
(* toolExecuted is true.  A failed model call ends the turn with the       *)
(* apology text, no action and toolExecuted false.                         *)
(***************************************************************************)
C31_TurnStepsInOrder ==
    [][\A p \in Procs :
          LET old == turns[p]
              new == turns'[p]
          IN  /\ TurnOrder(new.pc) >= TurnOrder(old.pc)
              /\ authHeaders' # authHeaders
                 => \E q \in Procs : turns[q].pc = "start" /\ turns'[q].pc = "model"
              /\ new.ai # old.ai /\ old.pc # "exec" => old.pc = "model"
              /\ new.called # old.called
                 => ~old.called /\ old.pc = "model" /\ new.pc = "exec"
              /\ old.pc = "exec" => new.called /\ new.tool = old.tool
                                    /\ new.args = old.args
              /\ new.toolExecuted # old.toolExecuted
                 => old.pc = "exec" /\ new.pc = "done"
              /\ new.pc = "done"
                 => /\ new.toolExecuted <=> new.called
                    /\ new.toolResult.defined <=> new.toolExecuted
              /\ new.modelFailed /\ new.pc = "done"
                 => /\ new.ai = AIResponse(ApologyText, <<>>, <<>>)
                    /\ ~new.toolExecuted /\ ~new.called
                    /\ new.status = "sent"]_vars

\* a finished turn that invoked the executor after its own setAuth and the
\* model's answer, and reports toolExecuted with the result
C31_Witness ==
    \E p \in Procs :
        /\ turns[p].pc = "done" /\ turns[p].status = "sent"
        /\ turns[p].headers # AnonymousHeaders
        /\ authHeaders = OwnAuthHeaders(Request(turns[p].message, turns[p].context,
                                                turns[p].headers))
        /\ turns[p].called /\ turns[p].toolExecuted
        /\ turns[p].toolResult.defined /\ turns[p].toolResult.success

\* a turn whose model call failed and that has answered
C31_WitnessModelFailure ==
    \E p \in Procs :
        /\ turns[p].pc = "done" /\ turns[p].modelFailed
        /\ turns[p].ai.text = ApologyText /\ ~turns[p].toolExecuted

\* a disconnect() is between its first close and its return
Disconnecting == \E p \in Procs : calls[p].pc \in {"d_client", "d_transport"}

(***************************************************************************)
(* C32.  In every state in which no disconnect() is under way,             *)
(* isConnected = TRUE implies that the stored client is not null and is    *)
(* the session whose open succeeded: an open session, not the object of a  *)
(* connect() whose open is pending or has failed.                          *)
(***************************************************************************)
C32_ConnectedHandleIsOpenSession ==
    isConnected /\ ~Disconnecting
    => client # NoHandle /\ sess[client] = "open"

\* the manager is Connected: the flag is set and the stored client is an
\* open session
Connected == isConnected /\ client # NoHandle /\ sess[client] = "open"
\* a disconnect() is called in this step or has been called and is running
DisconnectCalledStep ==
    \E p \in Procs : calls[p].op = "disconnect" \/ calls'[p].op = "disconnect"
\* connect() is called from outside in this step (not by a retry timer, not
\* by a request's ensureConnected)
ExplicitConnectStep ==
    \E p \in Procs : /\ calls[p].pc = "idle" /\ calls'[p].pc = "c_open"
                     /\ calls'[p].op = "connect" /\ timers' = timers

(***************************************************************************)
(* C33.  Once the manager is Connected it stays Connected, with the same   *)
(* client and transport, in every step in which disconnect() is neither    *)
(* called nor running and connect() is not called from outside: a retry    *)
(* timer that fires and a connect() still in flight leave the working      *)
(* session and the flag alone.                                             *)
(***************************************************************************)
C33_ConnectedUntilDisconnect ==
    [][Connected /\ ~DisconnectCalledStep /\ ~ExplicitConnectStep
       => Connected' /\ client' = client /\ transport' = transport]_vars

\* disconnect() has completed: it closed what there was to close and
\* returned, and the manager is Disconnected with nothing stored
DisconnectCompleted ==
    /\ ~isConnected /\ client = NoHandle /\ transport = NoHandle
    /\ \A p \in Procs : calls[p].pc = "idle"
\* a session is being opened by a step that no caller started: a connect()
\* begins and it is neither an explicit connect() nor a request
OwnAttemptStep ==
    \E p \in Procs : /\ calls[p].pc = "idle" /\ calls'[p].pc = "c_open"
                     /\ calls'[p].op = "connect" /\ timers' < timers

(***************************************************************************)
(* C34.  After disconnect() has completed and while no call is in flight,  *)
(* the manager makes no connection attempt of its own: no step that no     *)
(* caller started builds a transport, so a retry timer that was pending    *)
(* when disconnect() was called does not reconnect.                        *)
(***************************************************************************)
C34_NoAttemptAfterDisconnect ==
    [][DisconnectCompleted => ~OwnAttemptStep]_vars

(***************************************************************************)
(* C35.  At most one retry timer is pending at any time, whoever called    *)
(* the connect() calls that failed.                                        *)
(***************************************************************************)
C35_OneRetryTimer == timers <= 1

(***************************************************************************)
(* C36.  Between two successful connects (or from the start to the first)  *)
(* at most 5 retry timers are scheduled in total, whatever the number of   *)
(* callers: a step schedules at most one timer, and only while the counter *)
(* is below 5, which it raises by one; only a step that schedules a timer  *)
(* raises the counter; and the counter goes down only to 0, in a step in   *)
(* which an open succeeded.  With the retries exhausted the manager makes  *)
(* no attempt of its own.                                                  *)
(***************************************************************************)
C36_RetryBudget ==
    [][/\ timers' > timers
          => /\ timers' = timers + 1
             /\ reconnectAttempts < maxReconnectAttempts
             /\ reconnectAttempts' = reconnectAttempts + 1
       /\ reconnectAttempts' > reconnectAttempts => timers' = timers + 1
       /\ reconnectAttempts' < reconnectAttempts
          => reconnectAttempts' = 0 /\ \E p \in Procs : OpenSucceededStep(p)
       /\ Exhausted => ~OwnAttemptStep]_vars

\* every open failed: the fifth retry has been scheduled, has fired and has
\* failed; no timer is pending and nothing is in flight
C36_Witness ==
    /\ Exhausted
    /\ \A p \in Procs : calls[p].pc = "idle"
    /\ \A h \in Handles : sess[h] # "open"

(***************************************************************************)
(* C37.  At most one transport session is open at any time, and every open *)
(* session is the one the manager stores: a session that connect() opened  *)
(* is the stored client (and transport) or has been closed.                *)
(***************************************************************************)
C37_NoOrphanSession ==
    /\ Cardinality({h \in Handles : sess[h] = "open"}) <= 1
    /\ \A h \in Handles : sess[h] = "open" => h = client \/ h = transport

(***************************************************************************)
(* C38.  A session opened while serving a request that came with neither a *)
(* token nor a user id, after every other request has been answered,       *)
(* carries no Authorization and no X-User-Id header.                       *)
(***************************************************************************)
C38_AnonymousSessionWithoutCredentials ==
    \A p \in Procs :
        /\ turns[p].headers = AnonymousHeaders
        /\ turns[p].pc = "exec" /\ calls[p].pc = "c_open"
        /\ \A q \in Procs \ {p} : turns[q].pc = "done"
        => /\ hdrs[calls[p].h].Authorization = Absent
           /\ hdrs[calls[p].h].XUserId = NoUser

(***************************************************************************)
(* C39.  The recorded fetch time of the tool cache never decreases, under  *)
(* any interleaving of the refreshes inside connect() and executeService() *)
(* with listTools() calls.                                                 *)
(***************************************************************************)
C39_FetchTimeNeverDecreases ==
    [][lastToolSync' >= lastToolSync]_vars

(***************************************************************************)
(* C40.  Whenever a turn executed a tool successfully and answered, the    *)
(* final response text is not empty, for every tool name and every shape   *)
(* of structured payload.  Stated for directives of the declared types     *)
(* (a text tool name, an object of args) and payloads that are objects.    *)
(***************************************************************************)
C40_ExecutedTextNonEmpty ==
    \A p \in Procs :
        /\ turns[p].pc = "done" /\ turns[p].status = "sent"
        /\ turns[p].toolExecuted /\ turns[p].toolResult.success
        /\ turns[p].tool.ty = "string" /\ turns[p].directiveArgs.ty = "object"
        /\ StructuredResult(turns[p].toolResult.data).ty = "object"
        => turns[p].ai.text # <<>>

====
